---- MODULE Spec2Model ----
(***************************************************************************)
(* ProofVault: the proof registry in its two variants, the gateways, the   *)
(* deal tracking, the webhooks and the API service.                        *)
(*                                                                         *)
(*   ledger     contracts/contracts/FilecoinProofRegistry.sol              *)
(*   simulated  src/lib/wagmiConfig.js, class SimulatedBlockchain          *)
(*                                                                         *)
(* isSimulatedMode() routes every call of a session to one of the two, so  *)
(* a behaviour of Spec exercises one variant, chosen in Init.              *)
(***************************************************************************)
EXTENDS Integers, Sequences, FiniteSets, TLC

(***************************************************************************)
(* Bounds of the model.                                                    *)
(***************************************************************************)
\* Highest block number the ledger reaches.
MaxBlock == 2
\* Highest number of deals linked over the whole registry.
MaxDeals == 2
\* Highest number of proofs the simulated variant stores.
MaxSimProofs == 2
\* Highest wall-clock second the simulated variant reads.
MaxClock == 2
\* Highest number of NFTs the simulated variant mints.
MaxSimNfts == 2
\* Highest number of simulated calls in flight at once.
MaxPending == 2
\* Highest number of proofs registered and minted in a row.
MaxInRow == 51
MaxProbes == 2
MaxDealCalls == 2
MaxBodyDeals == 3
\* Highest number of webhooks created, and of events triggered.
MaxHooks == 2
MaxTriggers == 2
\* Highest number of entries written to the webhook log in a long run.
MaxLogged == 103
\* Highest number of webhooks, of calls in flight and of proofs saved
\* while the API service runs.
MaxApiHooks == 1
MaxApiCalls == 2
MaxSaved == 2

(***************************************************************************)
(* Input domains.                                                          *)
(***************************************************************************)
\* string proofId: the empty string and two identifiers.
ProofIds == {"", "PV-1", "PV-2"}
\* bytes32 sha256Hash: bytes32(0) and two digests.
Bytes32 == {0, 1, 2}
\* string cid: the empty string and two locators.
Cids == {"", "bafy1", "bafy2"}
\* string storageProvider.
StorageProviders == {"f01234"}
\* msg.sender: the deployer (owner) and one other account.
Owner == "0xOwner"
Addresses == {Owner, "0xAlice"}
ZeroAddress == "0x0"
\* uint64 dealId, string provider, uint256 epochs of linkDeal.
DealIds == {7, 9}
Providers == {"f01234"}
StartEpochs == {10}
EndEpochs == {20}
\* uint256 dealIndex of updateDealStatus.
DealIndexes == 0..MaxDeals

\* The locators registered in DealSpec.
DealCids == {"", "bafy1"}

\* The locators the simulated variant receives (it never reads them).
SimCids == {"", "bafy1"}
\* A hex digest as the simulated variant receives it: a string, here the
\* sequence of its characters.
SimHashes == {<<>>, <<"a", "b">>, <<"A", "B">>, <<"c", "d">>}
\* What generateTxHash can return.
TxHashes == {"0xaa", "0xbb"}
SimRegistrant == "0xSimulated1234567890abcdef1234567890abcdef"
\* fileName and fileSize of mintProof.
FileNames == {"a.pdf"}
FileSizes == {1024}
\* transactions.slice(-100): the transactions save() keeps.
KeepTransactions == 100
\* The store without the item (getItem gives null); with it, the store
\* is the one-element sequence of what JSON.parse gives.
NoItem == <<>>

VARIABLES
    variant,            \* "ledger" or "simulated": isSimulatedMode();
                        \* "both" when the two are run side by side
    \* ---- FilecoinProofRegistry.sol
    proofs,             \* mapping(string => Proof)
    hashToProofId,      \* mapping(bytes32 => string)
    cidToProofId,       \* mapping(string => string)
    proofDeals,         \* mapping(string => DealInfo[])
    totalProofs,        \* uint256
    totalDealsTracked,  \* uint256
    blockNumber,        \* block.number
    blockTimestamp,     \* block.timestamp
    \* ---- SimulatedBlockchain
    simProofs,          \* this.proofs: Map, as its entries in insertion order
    simBlockNumber,     \* this.blockNumber
    simTimestamp,       \* this.timestamp
    simTransactions,    \* this.transactions
    simNfts,            \* this.nfts: Map, as its entries in insertion order
    simNftCounter,      \* this.nftCounter
    simStorage,         \* localStorage, the item SIMULATED_STORAGE_KEY
    simPending,         \* the calls waiting in their delay
    \* ---- the gateways (webhooks.js)
    healthCache,        \* const healthCache = new Map()
    now,                \* Date.now(), in ms
    probing,            \* per gateway, the HEAD requests in flight
    failover,           \* the fetchWithFailover call in progress, if any
    requests,           \* the retrieval requests in flight
    \* ---- the deal tracking (filecoinDeals.js)
    dealCache,          \* localStorage item proofvault_deal_cache, parsed
    dealCalls,          \* the getDealInfo calls waiting for their query
    \* ---- the webhooks (webhooks.js)
    webhooks,           \* localStorage item proofvault_webhooks, parsed
    webhookLogs,        \* localStorage item proofvault_webhook_logs, parsed
    deliveries,         \* the dispatchWebhook calls in flight
    created,            \* how many webhooks createWebhook has stored
    logged,             \* how many entries logWebhookEvent has written
    triggered,          \* how many triggerWebhook calls have been made
    \* ---- the API service (part_003)
    savedProofs,        \* what saveProof has stored
    apiCalls,           \* the createProof and verifyProof calls in progress
    clock,              \* Math.floor(Date.now() / 1000)
    \* ---- the outcome of the last call
    last                \* [op, result]

\* The contract's storage, and the ledger with the chain's head.
storage == <<proofs, hashToProofId, cidToProofId, proofDeals, totalProofs,
             totalDealsTracked>>
ledgerVars == <<storage, blockNumber, blockTimestamp>>
\* The fields of the SimulatedBlockchain instance, and with the clock.
simFields == <<simProofs, simBlockNumber, simTimestamp, simTransactions,
               simNfts, simNftCounter>>
simVars == <<simFields, clock, simStorage, simPending>>
gatewayVars == <<healthCache, now, probing>>
registryVars == <<variant, ledgerVars, simVars>>
failoverVars == <<failover, requests>>
dealVars == <<dealCache, dealCalls>>
hookVars == <<webhooks, webhookLogs, deliveries, created, triggered, logged>>
apiVars == <<savedProofs, apiCalls>>
notifyVars == <<hookVars, apiVars>>
serviceVars == <<gatewayVars, failoverVars, dealVars, notifyVars>>
vars == <<variant, ledgerVars, simVars, serviceVars, last>>

\* The result of a call that did not revert or throw.
Ok == "ok"

(***************************************************************************)
(* FilecoinProofRegistry.sol                                               *)
(***************************************************************************)
\* A storage slot never written: every field is zero.
ZeroProof ==
    [sha256Hash |-> 0, cid |-> "", proofId |-> "", registrant |-> ZeroAddress,
     timestamp |-> 0, blockNumber |-> 0, dealIds |-> <<>>, storageProvider |-> ""]

\* registerProof without its require on proofs[proofId].timestamp.
RegisterProofRequire_NoIdCheck(proofId, sha256Hash, cid) ==
    IF proofId = "" THEN "Invalid proof ID"
    ELSE IF sha256Hash = 0 THEN "Invalid hash"
    ELSE IF cid = "" THEN "Invalid CID"
    ELSE IF hashToProofId[sha256Hash] # "" THEN "Hash already registered"
    ELSE Ok

\* registerProof without its require on hashToProofId.
RegisterProofRequire_NoHashCheck(proofId, sha256Hash, cid) ==
    IF proofId = "" THEN "Invalid proof ID"
    ELSE IF sha256Hash = 0 THEN "Invalid hash"
    ELSE IF cid = "" THEN "Invalid CID"
    ELSE IF proofs[proofId].timestamp # 0 THEN "Proof ID already exists"
    ELSE Ok

\* The require statements of registerProof, in order: the revert reason of
\* the first that fails, or Ok.
RegisterProofRequire(proofId, sha256Hash, cid) ==
    IF proofId = "" THEN "Invalid proof ID"
    ELSE IF sha256Hash = 0 THEN "Invalid hash"
    ELSE IF cid = "" THEN "Invalid CID"
    ELSE IF proofs[proofId].timestamp # 0 THEN "Proof ID already exists"
    ELSE IF hashToProofId[sha256Hash] # "" THEN "Hash already registered"
    ELSE Ok

\* A reverted transaction: no storage write survives.
Revert(op, reason) ==
    /\ last' = [op |-> op, result |-> reason]
    /\ UNCHANGED ledgerVars

\* registerProof without its write to hashToProofId.
RegisterProofTx_NoHashIndex(sender, proofId, sha256Hash, cid, storageProvider) ==
    IF RegisterProofRequire(proofId, sha256Hash, cid) # Ok
    THEN UNCHANGED ledgerVars
    ELSE /\ proofs' = [proofs EXCEPT ![proofId] =
                          [sha256Hash |-> sha256Hash, cid |-> cid,
                           proofId |-> proofId, registrant |-> sender,
                           timestamp |-> blockTimestamp,
                           blockNumber |-> blockNumber, dealIds |-> <<>>,
                           storageProvider |-> storageProvider]]
         /\ cidToProofId' = [cidToProofId EXCEPT ![cid] = proofId]
         /\ totalProofs' = totalProofs + 1
         /\ UNCHANGED <<hashToProofId, proofDeals, totalDealsTracked,
                        blockNumber, blockTimestamp>>

\* What a registerProof transaction does to the ledger.
RegisterProofTx(sender, proofId, sha256Hash, cid, storageProvider) ==
    LET reason == RegisterProofRequire(proofId, sha256Hash, cid)
        newProof == [sha256Hash |-> sha256Hash,
                     cid |-> cid,
                     proofId |-> proofId,
                     registrant |-> sender,
                     timestamp |-> blockTimestamp,
                     blockNumber |-> blockNumber,
                     dealIds |-> <<>>,
                     storageProvider |-> storageProvider]
    IN  IF reason # Ok
        THEN UNCHANGED ledgerVars
        ELSE /\ proofs' = [proofs EXCEPT ![proofId] = newProof]
             /\ hashToProofId' = [hashToProofId EXCEPT ![sha256Hash] = proofId]
             /\ cidToProofId' = [cidToProofId EXCEPT ![cid] = proofId]
             /\ totalProofs' = totalProofs + 1
             /\ UNCHANGED <<proofDeals, totalDealsTracked, blockNumber,
                            blockTimestamp>>

RegisterProof(sender, proofId, sha256Hash, cid, storageProvider) ==
    /\ variant = "ledger"
    /\ RegisterProofTx(sender, proofId, sha256Hash, cid, storageProvider)
    /\ last' = [op |-> "registerProof",
                result |-> RegisterProofRequire(proofId, sha256Hash, cid)]
    /\ UNCHANGED <<serviceVars, variant, simVars>>

\* linkDeal without its require on the sender.
LinkDealRequire_NoAuth(sender, proofId) ==
    IF ~(proofs[proofId].timestamp > 0) THEN "Proof not found" ELSE Ok

\* The require statements of linkDeal, in order.
LinkDealRequire(sender, proofId) ==
    IF ~(proofs[proofId].timestamp > 0) THEN "Proof not found"
    ELSE IF ~(proofs[proofId].registrant = sender \/ Owner = sender)
         THEN "Not authorized"
    ELSE Ok

\* The DealInfo linkDeal builds, stored inactive.
NewDealInfo_Inactive(dealId, provider, startEpoch, endEpoch) ==
    [dealId |-> dealId, provider |-> provider, startEpoch |-> startEpoch,
     endEpoch |-> endEpoch, active |-> FALSE]

\* The DealInfo linkDeal builds.
NewDealInfo(dealId, provider, startEpoch, endEpoch) ==
    [dealId |-> dealId,
     provider |-> provider,
     startEpoch |-> startEpoch,
     endEpoch |-> endEpoch,
     active |-> TRUE]

LinkDeal(sender, proofId, dealId, provider, startEpoch, endEpoch) ==
    /\ variant = "ledger"
    /\ LET reason == LinkDealRequire(sender, proofId)
           deal == NewDealInfo(dealId, provider, startEpoch, endEpoch)
       IN  IF reason # Ok
           THEN Revert("linkDeal", reason)
           ELSE /\ proofDeals' = [proofDeals EXCEPT
                                    ![proofId] = Append(@, deal)]
                /\ proofs' = [proofs EXCEPT
                                ![proofId].dealIds = Append(@, dealId)]
                /\ totalDealsTracked' = totalDealsTracked + 1
                /\ last' = [op |-> "linkDeal", result |-> Ok]
                /\ UNCHANGED <<hashToProofId, cidToProofId, totalProofs,
                               blockNumber, blockTimestamp>>
    /\ UNCHANGED <<serviceVars, variant, simVars>>

\* updateDealStatus without its require on the sender.
UpdateDealStatusRequire_NoAuth(sender, proofId, dealIndex) ==
    IF ~(proofs[proofId].timestamp > 0) THEN "Proof not found"
    ELSE IF ~(dealIndex < Len(proofDeals[proofId])) THEN "Invalid deal index"
    ELSE Ok

\* The require statements of updateDealStatus, in order. dealIndex counts
\* from 0.
UpdateDealStatusRequire(sender, proofId, dealIndex) ==
    IF ~(proofs[proofId].timestamp > 0) THEN "Proof not found"
    ELSE IF ~(dealIndex < Len(proofDeals[proofId])) THEN "Invalid deal index"
    ELSE IF ~(proofs[proofId].registrant = sender \/ Owner = sender)
         THEN "Not authorized"
    ELSE Ok

UpdateDealStatus(sender, proofId, dealIndex, active) ==
    /\ variant = "ledger"
    /\ LET reason == UpdateDealStatusRequire(sender, proofId, dealIndex)
       IN  IF reason # Ok
           THEN Revert("updateDealStatus", reason)
           ELSE /\ proofDeals' = [proofDeals EXCEPT
                                    ![proofId][dealIndex + 1].active = active]
                /\ last' = [op |-> "updateDealStatus", result |-> Ok]
                /\ UNCHANGED <<proofs, hashToProofId, cidToProofId,
                               totalProofs, totalDealsTracked, blockNumber,
                               blockTimestamp>>
    /\ UNCHANGED <<serviceVars, variant, simVars>>

\* The view functions.
GetProof(proofId) ==
    IF ~(proofs[proofId].timestamp > 0) THEN "Proof not found"
    ELSE proofs[proofId]

GetProofByHash(sha256Hash) ==
    LET proofId == hashToProofId[sha256Hash]
    IN  IF ~(proofId # "") THEN "Proof not found" ELSE proofs[proofId]

GetProofByCid(cid) ==
    LET proofId == cidToProofId[cid]
    IN  IF ~(proofId # "") THEN "Proof not found" ELSE proofs[proofId]

GetProofDeals(proofId) == proofDeals[proofId]

\* getActiveDealsCount counting every entry.
GetActiveDealsCount_All(proofId) == Len(proofDeals[proofId])

\* The loop of getActiveDealsCount from index i on (i counts from 0).
RECURSIVE CountActive(_, _)
CountActive(deals, i) ==
    IF ~(i < Len(deals)) THEN 0
    ELSE (IF deals[i + 1].active THEN 1 ELSE 0) + CountActive(deals, i + 1)

GetActiveDealsCount(proofId) == CountActive(proofDeals[proofId], 0)

\* verifyProof comparing the hashes alone.
VerifyProof_HashOnly(proofId, sha256Hash) ==
    LET proof == proofs[proofId]
    IN  proof.sha256Hash = sha256Hash

VerifyProof(proofId, sha256Hash) ==
    LET proof == proofs[proofId]
    IN  proof.timestamp > 0 /\ proof.sha256Hash = sha256Hash

ProofExists(proofId) == proofs[proofId].timestamp > 0

HashExists(sha256Hash) == hashToProofId[sha256Hash] # ""

GetStats == <<totalProofs, totalDealsTracked>>

\* A new block: block.number and block.timestamp advance.
NewBlock ==
    /\ variant = "ledger"
    /\ blockNumber < MaxBlock
    /\ blockNumber' = blockNumber + 1
    /\ blockTimestamp' = blockTimestamp + 1
    /\ UNCHANGED <<serviceVars, variant, proofs, hashToProofId, cidToProofId, proofDeals,
                   totalProofs, totalDealsTracked, simVars, last>>

(***************************************************************************)
(* SimulatedBlockchain (wagmiConfig.js)                                    *)
(***************************************************************************)
\* String.prototype.toLowerCase on the characters a digest can hold.
LowerChar(c) ==
    CASE c = "A" -> "a"
      [] c = "B" -> "b"
      [] c = "C" -> "c"
      [] c = "D" -> "d"
      [] c = "E" -> "e"
      [] c = "F" -> "f"
      [] OTHER -> c

ToLowerCase(s) == [i \in 1..Len(s) |-> LowerChar(s[i])]

\* Map.prototype.has, get and set on this.proofs. A Map keeps its entries
\* in insertion order; set on a key it holds replaces the value in place.
MapHas(map, key) == \E i \in 1..Len(map) : map[i].key = key

MapGet(map, key) ==
    IF MapHas(map, key)
    THEN map[CHOOSE i \in 1..Len(map) : map[i].key = key].value
    ELSE "undefined"

MapSet(map, key, value) ==
    IF MapHas(map, key)
    THEN [i \in 1..Len(map) |->
            IF map[i].key = key THEN [key |-> key, value |-> value]
            ELSE map[i]]
    ELSE Append(map, [key |-> key, value |-> value])

\* Array.from(map.entries()): the [key, value] pairs.
Entries(map) == [i \in 1..Len(map) |-> <<map[i].key, map[i].value>>]

\* new Map(pairs): a key stands where it comes first and holds the value
\* that comes last.
NewMap(pairs) ==
    LET first == SelectSeq([i \in 1..Len(pairs) |-> i],
                           LAMBDA i : \A j \in 1..(i - 1) :
                                        pairs[j][1] # pairs[i][1])
        lastOf(key) == CHOOSE i \in 1..Len(pairs) :
                          /\ pairs[i][1] = key
                          /\ \A j \in (i + 1)..Len(pairs) : pairs[j][1] # key
    IN  [k \in 1..Len(first) |->
            [key |-> pairs[first[k]][1],
             value |-> pairs[lastOf(pairs[first[k]][1])][2]]]

\* Array.prototype.slice(-n): the last n elements.
SliceLast(array, n) ==
    IF Len(array) <= n THEN array
    ELSE SubSeq(array, Len(array) - n + 1, Len(array))

\* x || d on a number.
OrElse(x, d) == IF x = 0 THEN d ELSE x

\* What save() writes for an instance with these fields.
SavedItem(bn, proofMap, nftMap, counter, txs) ==
    <<[blockNumber |-> bn,
       proofs |-> Entries(proofMap),
       nfts |-> Entries(nftMap),
       nftCounter |-> counter,
       transactions |-> SliceLast(txs, KeepTransactions)]>>

\* registerProof without its check of this.proofs.has(proofId).
SimRegisterProofThrow_NoIdCheck(proofId, sha256Hash) ==
    IF \E i \in 1..Len(simProofs) :
            ToLowerCase(simProofs[i].value.sha256Hash)
                = ToLowerCase(sha256Hash)
    THEN "Hash already registered"
    ELSE Ok

\* registerProof comparing the hashes as they are, without toLowerCase().
SimRegisterProofThrow_CaseSensitive(proofId, sha256Hash) ==
    IF MapHas(simProofs, proofId) THEN "Proof ID already exists"
    ELSE IF \E i \in 1..Len(simProofs) :
                simProofs[i].value.sha256Hash = sha256Hash
         THEN "Hash already registered"
    ELSE Ok

\* The two checks of registerProof, in order: the message of the Error
\* thrown, or Ok.
SimRegisterProofThrow(proofId, sha256Hash) ==
    IF MapHas(simProofs, proofId) THEN "Proof ID already exists"
    ELSE IF \E i \in 1..Len(simProofs) :
                ToLowerCase(simProofs[i].value.sha256Hash)
                    = ToLowerCase(sha256Hash)
         THEN "Hash already registered"
    ELSE Ok

\* registerProof, from the end of its delay: nothing is awaited between
\* the checks and mineBlock(), so the rest of the call is one step.
\* txHash is what generateTxHash() draws. SimRegisterProofRun is what the
\* call does to the instance and to the store.
SimRegisterProofRun(proofId, sha256Hash, cid, txHash) ==
    LET reason == SimRegisterProofThrow(proofId, sha256Hash)
        proof == [proofId |-> proofId,
                  sha256Hash |-> sha256Hash,
                  cid |-> cid,
                  registrant |-> SimRegistrant,
                  timestamp |-> simTimestamp,
                  blockNumber |-> simBlockNumber]
    IN  IF reason # Ok
        THEN UNCHANGED <<simFields, clock, simStorage>>
        ELSE    /\ simProofs' = MapSet(simProofs, proofId, proof)
                /\ simTransactions' =
                     Append(simTransactions,
                            [hash |-> txHash,
                             type |-> "registerProof",
                             proofId |-> proofId,
                             blockNumber |-> simBlockNumber,
                             timestamp |-> simTimestamp])
                \* mineBlock()
                /\ simBlockNumber' = simBlockNumber + 1
                /\ simTimestamp' = clock
                /\ simStorage' = SavedItem(simBlockNumber', simProofs', simNfts,
                                           simNftCounter, simTransactions')
                /\ UNCHANGED <<simNfts, simNftCounter, clock>>

\* registerProof resolving to the block number after mineBlock().
SimRegisterProofReturn_AfterMine(proofId, txHash) ==
    [hash |-> txHash,
     blockNumber |-> simBlockNumber',
     proof |-> MapGet(simProofs', proofId)]

\* What registerProof resolves to.
SimRegisterProofReturn(proofId, txHash) ==
    [hash |-> txHash,
     blockNumber |-> simBlockNumber' - 1,
     proof |-> MapGet(simProofs', proofId)]

SimRegisterProof(proofId, sha256Hash, cid, txHash) ==
    /\ variant = "simulated"
    /\ SimRegisterProofRun(proofId, sha256Hash, cid, txHash)
    /\ LET reason == SimRegisterProofThrow(proofId, sha256Hash)
       IN  last' = IF reason # Ok
                   THEN [op |-> "registerProof", result |-> reason]
                   ELSE [op |-> "registerProof", result |-> Ok,
                         returned |-> SimRegisterProofReturn(proofId, txHash)]
    /\ UNCHANGED <<serviceVars, variant, ledgerVars>>

\* The check of mintProof: the message of the Error thrown, or Ok.
SimMintProofThrow(proofId) ==
    IF MapHas(simNfts, proofId) THEN "Proof already minted" ELSE Ok

\* mintProof, from the end of its delay.
SimMintProof(proofId, sha256Hash, cid, fileName, fileSize, txHash) ==
    /\ variant = "simulated"
    /\ LET reason == SimMintProofThrow(proofId)
           tokenId == simNftCounter
           nft == [tokenId |-> tokenId,
                   proofId |-> proofId,
                   sha256Hash |-> sha256Hash,
                   cid |-> cid,
                   fileName |-> fileName,
                   fileSize |-> fileSize,
                   owner |-> SimRegistrant,
                   timestamp |-> simTimestamp]
       IN  IF reason # Ok
           THEN /\ last' = [op |-> "mintProof", result |-> reason]
                /\ UNCHANGED <<simFields, clock, simStorage>>
           ELSE /\ simNftCounter' = simNftCounter + 1
                /\ simNfts' = MapSet(simNfts, proofId, nft)
                /\ simTransactions' =
                     Append(simTransactions,
                            [hash |-> txHash,
                             type |-> "mintProof",
                             proofId |-> proofId,
                             tokenId |-> tokenId,
                             blockNumber |-> simBlockNumber,
                             timestamp |-> simTimestamp])
                \* mineBlock()
                /\ simBlockNumber' = simBlockNumber + 1
                /\ simTimestamp' = clock
                /\ simStorage' = SavedItem(simBlockNumber', simProofs, simNfts',
                                           simNftCounter', simTransactions')
                /\ last' = [op |-> "mintProof", result |-> Ok,
                            returned |-> [hash |-> txHash,
                                          tokenId |-> tokenId,
                                          blockNumber |-> simBlockNumber' - 1]]
                /\ UNCHANGED <<simProofs, clock>>
    /\ UNCHANGED <<serviceVars, variant, ledgerVars>>

\* The page is loaded again: a new SimulatedBlockchain is constructed and
\* reads what the last save() wrote. The calls in flight die with the page.
SimReload ==
    /\ variant = "simulated"
    /\ simTimestamp' = clock
    /\ IF simStorage = NoItem
       THEN /\ simBlockNumber' = 1
            /\ simProofs' = <<>>
            /\ simNfts' = <<>>
            /\ simNftCounter' = 1
            /\ simTransactions' = <<>>
       ELSE LET parsed == simStorage[1]
            IN  /\ simBlockNumber' = OrElse(parsed.blockNumber, 1)
                /\ simProofs' = NewMap(parsed.proofs)
                /\ simNfts' = NewMap(parsed.nfts)
                /\ simNftCounter' = OrElse(parsed.nftCounter, 1)
                /\ simTransactions' = parsed.transactions
    /\ simPending' = {}
    /\ last' = [op |-> "constructor", result |-> Ok]
    /\ UNCHANGED <<serviceVars, variant, ledgerVars, clock, simStorage>>

SimGetProof(proofId) ==
    IF MapHas(simProofs, proofId) THEN MapGet(simProofs, proofId) ELSE "null"

\* The first proof, in insertion order, with that digest.
SimGetProofByHash(sha256Hash) ==
    LET hits == {i \in 1..Len(simProofs) :
                    ToLowerCase(simProofs[i].value.sha256Hash)
                        = ToLowerCase(sha256Hash)}
    IN  IF hits = {} THEN "null"
        ELSE simProofs[CHOOSE i \in hits : \A j \in hits : i <= j].value

SimProofExists(proofId) == MapHas(simProofs, proofId)

SimGetTotalProofs == Len(simProofs)

\* A second passes on the wall clock.
Tick ==
    /\ variant = "simulated"
    /\ clock < MaxClock
    /\ clock' = clock + 1
    /\ UNCHANGED <<serviceVars, variant, ledgerVars, simFields, simStorage, simPending,
                   last>>

(***************************************************************************)
(* The gateways (webhooks.js)                                              *)
(***************************************************************************)
\* GATEWAYS, in the order configured.
GATEWAYS ==
    <<[id |-> "w3s", name |-> "Web3.Storage",
       url |-> "https://w3s.link/ipfs/", priority |-> 1],
      [id |-> "dweb", name |-> "Dweb.link",
       url |-> "https://dweb.link/ipfs/", priority |-> 2],
      [id |-> "ipfs-io", name |-> "IPFS.io",
       url |-> "https://ipfs.io/ipfs/", priority |-> 3],
      [id |-> "cloudflare", name |-> "Cloudflare",
       url |-> "https://cloudflare-ipfs.com/ipfs/", priority |-> 4],
      [id |-> "pinata", name |-> "Pinata",
       url |-> "https://gateway.pinata.cloud/ipfs/", priority |-> 5],
      [id |-> "nftstorage", name |-> "NFT.Storage",
       url |-> "https://nftstorage.link/ipfs/", priority |-> 6]>>

GatewayIds == {GATEWAYS[i].id : i \in 1..Len(GATEWAYS)}

HEALTH_CHECK_INTERVAL == 60000

\* latency: null, and error: null.
NullLatency == -1
NullError == "null"

\* Math.round(performance.now() - startTime) of a probe that got a response.
Latencies == {0, 50, 200}
\* What the HEAD request of a probe comes to: a response (ok or not) after
\* some latency, the abort of the timeout, or another rejection.
Outcomes ==
    [kind : {"response"}, ok : BOOLEAN, latency : Latencies]
    \cup {[kind |-> "AbortError"],
          [kind |-> "TypeError", message |-> "Failed to fetch"]}

\* The status checkGatewayHealth builds from the outcome of its probe
\* (lastChecked left out).
ProbeStatus_ErrName(outcome) ==
    IF outcome.kind = "response"
    THEN [healthy |-> outcome.ok, latency |-> outcome.latency,
          error |-> NullError]
    ELSE [healthy |-> FALSE, latency |-> NullLatency,
          error |-> outcome.kind]

ProbeStatus(outcome) ==
    IF outcome.kind = "response"
    THEN [healthy |-> outcome.ok, latency |-> outcome.latency,
          error |-> NullError]
    ELSE [healthy |-> FALSE, latency |-> NullLatency,
          error |-> IF outcome.kind = "AbortError" THEN "Timeout"
                    ELSE outcome.message]

\* healthCache.get(cacheKey): the empty sequence for undefined, else the
\* one-element sequence of the entry { status, timestamp }.
Cached(id) == healthCache[id]

\* cached && Date.now() - cached.timestamp < HEALTH_CHECK_INTERVAL
Fresh_Inclusive(id) ==
    /\ Cached(id) # <<>>
    /\ now - Cached(id)[1].timestamp <= HEALTH_CHECK_INTERVAL

Fresh(id) ==
    /\ Cached(id) # <<>>
    /\ now - Cached(id)[1].timestamp < HEALTH_CHECK_INTERVAL

GatewaysInit ==
    /\ healthCache = [id \in GatewayIds |-> <<>>]
    /\ now = 0
    /\ probing = [id \in GatewayIds |-> 0]

\* checkGatewayHealth up to its first await: a fresh cached status is
\* returned at once, otherwise the HEAD request leaves.
CheckGatewayHealth(id) ==
    /\ IF Fresh(id)
       THEN /\ last' = [op |-> "checkGatewayHealth", gateway |-> id,
                        result |-> Cached(id)[1].status, probed |-> FALSE]
            /\ UNCHANGED probing
       ELSE /\ probing' = [probing EXCEPT ![id] = @ + 1]
            /\ last' = [op |-> "fetch", gateway |-> id, result |-> Ok]
    /\ UNCHANGED <<healthCache, now, registryVars, notifyVars, failoverVars, dealVars>>

\* checkGatewayHealth from the outcome of its HEAD request to its return.
ProbeSettles(id, outcome) ==
    /\ probing[id] > 0
    /\ probing' = [probing EXCEPT ![id] = @ - 1]
    /\ healthCache' =
          [healthCache EXCEPT
              ![id] = <<[status |-> ProbeStatus(outcome),
                         timestamp |-> now]>>]
    /\ last' = [op |-> "checkGatewayHealth", gateway |-> id,
                outcome |-> outcome, result |-> ProbeStatus(outcome),
                probed |-> TRUE]
    /\ UNCHANGED <<now, registryVars, notifyVars, failoverVars, dealVars>>

ClearHealthCache ==
    /\ healthCache' = [id \in GatewayIds |-> <<>>]
    /\ last' = [op |-> "clearHealthCache", result |-> Ok]
    /\ UNCHANGED <<now, probing, registryVars, notifyVars, failoverVars, dealVars>>

\* Time passes.
Advance(t) ==
    /\ t > now
    /\ now' = t
    /\ UNCHANGED <<healthCache, probing, registryVars, notifyVars, failoverVars, dealVars, last>>

\* x || d
OrDefault(x, d) == IF x = NullLatency \/ x = 0 THEN d ELSE x

\* The comparator of getGatewaysWithHealth.
Compare_ByPriority(a, b) == a.priority - b.priority

Compare(a, b) ==
    IF a.health.healthy /\ ~b.health.healthy THEN -1
    ELSE IF ~a.health.healthy /\ b.health.healthy THEN 1
    ELSE IF a.health.healthy /\ b.health.healthy
         THEN OrDefault(a.health.latency, 9999)
                  - OrDefault(b.health.latency, 9999)
         ELSE a.priority - b.priority

\* results.sort(comparator): the sort is stable, so an element comes behind
\* those that compare smaller and behind its equals of the original order.
Sort(array) ==
    LET Before(i, j) ==
            \/ Compare(array[i], array[j]) < 0
            \/ Compare(array[i], array[j]) = 0 /\ i < j
        Position(i) ==
            1 + Cardinality({j \in 1..Len(array) : Before(j, i)})
    IN  [k \in 1..Len(array) |->
            array[CHOOSE i \in 1..Len(array) : Position(i) = k]]

\* What one checkGatewayHealth of a getGatewaysWithHealth call returns: the
\* fresh cached status, or the status of its own probe.
HealthOf(id, outcomes) ==
    IF Fresh(id) THEN Cached(id)[1].status ELSE ProbeStatus(outcomes[id])

\* The array Promise.all gives: { ...gateway, health }, in configured order.
Results(outcomes) ==
    [i \in 1..Len(GATEWAYS) |->
        [id |-> GATEWAYS[i].id, name |-> GATEWAYS[i].name,
         url |-> GATEWAYS[i].url, priority |-> GATEWAYS[i].priority,
         health |-> HealthOf(GATEWAYS[i].id, outcomes)]]

\* The cache once every probe of the call has settled.
CacheAfter(outcomes) ==
    [id \in GatewayIds |->
        IF Fresh(id) THEN healthCache[id]
        ELSE <<[status |-> ProbeStatus(outcomes[id]), timestamp |-> now]>>]

\* getGatewaysWithHealth, with the outcome each probe would have.
GetGatewaysWithHealth(outcomes) ==
    /\ healthCache' = CacheAfter(outcomes)
    /\ last' = [op |-> "getGatewaysWithHealth",
                result |-> Sort(Results(outcomes))]
    /\ UNCHANGED <<now, probing, registryVars, notifyVars, failoverVars, dealVars>>

\* gateways.find(g => g.health.healthy) || gateways[0]
GetBestGateway_Configured(gateways) ==
    gateways[CHOOSE i \in 1..Len(gateways) :
                 \A j \in 1..Len(gateways) :
                     gateways[i].priority <= gateways[j].priority]

GetBestGateway(gateways) ==
    IF \E i \in 1..Len(gateways) : gateways[i].health.healthy
    THEN gateways[CHOOSE i \in 1..Len(gateways) :
                      /\ gateways[i].health.healthy
                      /\ \A j \in 1..(i - 1) : ~gateways[j].health.healthy]
    ELSE gateways[1]

\* getOptimizedUrl: `${gateway.url}${cid}`, kept as the pair of its parts.
GetOptimizedUrl(cid, outcomes) ==
    /\ healthCache' = CacheAfter(outcomes)
    /\ last' = [op |-> "getOptimizedUrl", cid |-> cid,
                gateways |-> Sort(Results(outcomes)),
                result |-> <<GetBestGateway(Sort(Results(outcomes))).url,
                             cid>>]
    /\ UNCHANGED <<now, probing, registryVars, notifyVars, failoverVars, dealVars>>

(***************************************************************************)
(* fetchWithFailover (webhooks.js)                                         *)
(***************************************************************************)
\* What a retrieval request comes to: a response (ok or not), the abort of
\* the timeout, or another rejection.
FetchOutcomes ==
    [kind : {"response"}, ok : BOOLEAN]
    \cup {[kind |-> "AbortError", message |-> "The operation was aborted."],
          [kind |-> "TypeError", message |-> "Failed to fetch"]}

\* The error object a rejected request throws into the catch block.
ErrorOf(outcome) == [name |-> outcome.kind, message |-> outcome.message]

NoCall == [phase |-> "idle"]

FailoverInit ==
    /\ failover = NoCall
    /\ requests = {}

\* gateways.filter(g => g.health.healthy)
HealthyGateways(gateways) ==
    SelectSeq(gateways, LAMBDA g : g.health.healthy)

\* array.slice(0, n)
SliceFirst(array, n) ==
    SubSeq(array, 1, IF Len(array) < n THEN Len(array) ELSE n)

\* healthyGateways.length > 0 ? healthyGateways : gateways.slice(0, 3)
GatewaysToTry_TopThree(gateways) == SliceFirst(gateways, 3)

GatewaysToTry(gateways) ==
    IF Len(HealthyGateways(gateways)) > 0
    THEN HealthyGateways(gateways)
    ELSE SliceFirst(gateways, 3)

\* The requests the loop sends when it reaches the k-th gateway.
Issued_AllAtOnce(toTry, k) ==
    IF k = 1 THEN {toTry[i].id : i \in 1..Len(toTry)} ELSE {}

Issued(toTry, k) == {toTry[k].id}

\* throw lastError || new Error('All gateways failed')
Thrown(lastError) ==
    IF lastError # <<>> THEN lastError[1]
    ELSE [name |-> "Error", message |-> "All gateways failed"]

\* fetchWithFailover from its call to the first request of its loop; the
\* health checks of getGatewaysWithHealth settle with the given outcomes.
FetchWithFailover(cid, outcomes) ==
    /\ failover = NoCall
    /\ healthCache' = CacheAfter(outcomes)
    /\ \E gateways \in {Sort(Results(outcomes))} :
          \E toTry \in {GatewaysToTry(gateways)} :
              /\ failover' = [phase |-> "fetching", cid |-> cid,
                              gateways |-> gateways, toTry |-> toTry,
                              k |-> 1, lastError |-> <<>>, warned |-> <<>>]
              /\ requests' = requests \cup Issued(toTry, 1)
              /\ last' = [op |-> "request", gateway |-> toTry[1].id,
                          settled |-> <<>>, result |-> Ok]
    /\ UNCHANGED <<now, probing, registryVars, notifyVars, dealVars>>

\* One turn of the loop, from the outcome of the request in flight to the
\* next request, the return or the throw.
RequestSettles(outcome) ==
    /\ failover # NoCall
    /\ LET toTry == failover.toTry
           k == failover.k
           gateway == toTry[k]
           threw == outcome.kind # "response"
           lastError == IF threw THEN <<ErrorOf(outcome)>>
                        ELSE failover.lastError
           warned == IF threw THEN Append(failover.warned, gateway.name)
                     ELSE failover.warned
       IN  IF outcome.kind = "response" /\ outcome.ok
           THEN /\ failover' = NoCall
                /\ requests' = requests \ {gateway.id}
                /\ last' = [op |-> "fetchWithFailover", result |-> "returned",
                            attempts |-> k, outcome |-> outcome,
                            warned |-> warned,
                            returned |->
                                [response |->
                                     [ok |-> TRUE,
                                      url |-> <<gateway.url, failover.cid>>],
                                 gateway |-> gateway.name,
                                 url |-> <<gateway.url, failover.cid>>]]
           ELSE IF k < Len(toTry)
           THEN /\ failover' = [failover EXCEPT !.k = k + 1,
                                                !.lastError = lastError,
                                                !.warned = warned]
                /\ requests' = (requests \ {gateway.id})
                                   \cup Issued(toTry, k + 1)
                /\ last' = [op |-> "request", gateway |-> toTry[k + 1].id,
                            settled |-> <<outcome>>, result |-> Ok]
           ELSE /\ failover' = NoCall
                /\ requests' = requests \ {gateway.id}
                /\ last' = [op |-> "fetchWithFailover", result |-> "thrown",
                            attempts |-> k, outcome |-> outcome,
                            warned |-> warned,
                            thrown |-> Thrown(lastError)]
    /\ UNCHANGED <<gatewayVars, registryVars, notifyVars, dealVars>>

(***************************************************************************)
(* The deal tracking (filecoinDeals.js)                                    *)
(***************************************************************************)
\* 5 * 60 * 1000
DEAL_CACHE_TTL == 300000

\* A string is the sequence of its characters.
Chars_active == <<"a", "c", "t", "i", "v", "e">>
Chars_activedeal == <<"a", "c", "t", "i", "v", "e", "d", "e", "a", "l">>
Chars_pending == <<"p", "e", "n", "d", "i", "n", "g">>
Chars_published == <<"p", "u", "b", "l", "i", "s", "h", "e", "d">>
Chars_queued == <<"q", "u", "e", "u", "e", "d">>
Chars_expired == <<"e", "x", "p", "i", "r", "e", "d">>
Chars_slashed == <<"s", "l", "a", "s", "h", "e", "d">>

\* mapDealStatus: status?.toLowerCase(), then the switch.
MapDealStatus(status) ==
    LET lower == ToLowerCase(status)
    IN  IF lower \in {Chars_active, Chars_activedeal} THEN "active"
        ELSE IF lower \in {Chars_pending, Chars_published, Chars_queued}
             THEN "pending"
        ELSE IF lower = Chars_expired THEN "expired"
        ELSE IF lower = Chars_slashed THEN "slashed"
        ELSE "unknown"

\* array.some(d => d.status === status)
Some(deals, status) == \E i \in 1..Len(deals) : deals[i].status = status

\* The status parseW3SResponse rolls up from the mapped deals.
RollUp_NoExpired(deals) ==
    IF Some(deals, "active") THEN "active"
    ELSE IF Some(deals, "pending") THEN "pending"
    ELSE "unknown"

RollUp(deals) ==
    IF Some(deals, "active") THEN "active"
    ELSE IF Some(deals, "pending") THEN "pending"
    ELSE IF Len(deals) > 0 THEN "expired"
    ELSE "unknown"

\* parseW3SResponse on a parsed body (pieceCid, dataCid, created and dagSize,
\* which are copied through, are left out).
ParseW3SResponse(data) ==
    LET raw == IF "deals" \in DOMAIN data THEN data.deals ELSE <<>>
        deals == [i \in 1..Len(raw) |->
                     [dealId |-> raw[i].dealId,
                      provider |-> raw[i].storageProvider,
                      status |-> MapDealStatus(raw[i].status),
                      activation |-> raw[i].dealActivation,
                      expiration |-> raw[i].dealExpiration]]
    IN  [status |-> RollUp(deals), deals |-> deals,
         pinned |-> "pins" \in DOMAIN data /\ Len(data.pins) > 0]

\* charCodeAt(0) of the characters a locator of the model can hold.
CharCode(c) ==
    CASE c = "a" -> 97
      [] c = "b" -> 98
      [] c = "c" -> 99
      [] c = "d" -> 100
      [] c = "e" -> 101
      [] c = "f" -> 102

\* cid.split('').reduce((a, b) => a + b.charCodeAt(0), 0)
HashOf(cid) ==
    LET sum[n \in 0..Len(cid)] ==
            IF n = 0 THEN 0 ELSE sum[n - 1] + CharCode(cid[n])
    IN  sum[Len(cid)]

SimProviders == <<"f01234", "f05678", "f09012">>

\* new Date(t + days * dayMs).toISOString(), for t below one day (dayMs =
\* 24 * 60 * 60 * 1000): the instant as its days and its ms within the day.
Instant(t, days) == [days |-> days, ms |-> t]

\* simulateDealInfo at the instant t = Date.now(); i is the 0-based index of
\* the map callback.
SimulateDealInfo(cid, t) ==
    LET hash == HashOf(cid)
    IN  IF hash % 3 = 0
        THEN [status |-> "pending", deals |-> <<>>, simulated |-> TRUE,
              message |-> "Deal aggregation in progress"]
        ELSE [status |-> "active",
              deals |->
                  [n \in 1..((hash % 3) + 1) |->
                      LET i == n - 1
                      IN  [dealId |-> 1000000 + ((hash * (i + 1)) % 999999),
                           provider |-> SimProviders[n],
                           status |-> "active",
                           pieceCid |-> <<"baga6ea4seaq">>
                                            \o SliceLast(cid, 32),
                           activation |-> Instant(t, 0 - (30 + i * 10)),
                           expiration |-> Instant(t, 180 - i * 30),
                           created |-> Instant(t, 0 - (35 + i * 10))]],
              pinned |-> TRUE, simulated |-> TRUE]

NotFoundInfo == [status |-> "not_found", deals |-> <<>>]

\* response.ok
ResponseOk(outcome) == outcome.status >= 200 /\ outcome.status <= 299

\* fetchDealFromW3S from the outcome of its request: a response with its
\* HTTP status and, if the body parses as JSON, the parsed body; or a
\* rejection of the request.
FetchDealFromW3S_NoNotFound(cid, outcome, t) ==
    IF outcome.kind = "response" /\ ResponseOk(outcome) /\ outcome.body # <<>>
    THEN ParseW3SResponse(outcome.body[1])
    ELSE SimulateDealInfo(cid, t)

FetchDealFromW3S(cid, outcome, t) ==
    IF outcome.kind # "response" THEN SimulateDealInfo(cid, t)
    ELSE IF ~ResponseOk(outcome)
         THEN IF outcome.status = 404 THEN NotFoundInfo
              ELSE SimulateDealInfo(cid, t)
    ELSE IF outcome.body = <<>> THEN SimulateDealInfo(cid, t)
    ELSE ParseW3SResponse(outcome.body[1])

\* The locators that may be keys of the cache object.
DealKeys == {<<"a">>, <<"c">>}

\* getCachedDeal: entry && Date.now() - entry.timestamp < DEAL_CACHE_TTL
DealFresh(cid) ==
    /\ dealCache[cid] # <<>>
    /\ now - dealCache[cid][1].timestamp < DEAL_CACHE_TTL

\* cacheDeal: the old entries go, then cache[cid] = { data, timestamp: now }.
Evicted_Never(key) == FALSE

Evicted(key) ==
    /\ dealCache[key] # <<>>
    /\ now - dealCache[key][1].timestamp > DEAL_CACHE_TTL * 2

CacheDeal(cid, data) ==
    [key \in DealKeys |->
        IF key = cid THEN <<[data |-> data, timestamp |-> now]>>
        ELSE IF Evicted(key) THEN <<>>
        ELSE dealCache[key]]

DealsInit ==
    /\ dealCache = [key \in DealKeys |-> <<>>]
    /\ dealCalls = <<>>

\* getDealInfo up to its return or to its await: an empty locator and a fresh
\* cache entry are answered at once, otherwise the query leaves.
GetDealInfo(cid) ==
    /\ IF cid = <<>>
       THEN /\ last' = [op |-> "getDealInfo", cid |-> cid,
                        result |-> NotFoundInfo, queried |-> FALSE]
            /\ UNCHANGED dealCalls
       ELSE IF DealFresh(cid)
       THEN /\ last' = [op |-> "getDealInfo", cid |-> cid,
                        result |-> dealCache[cid][1].data,
                        queried |-> FALSE]
            /\ UNCHANGED dealCalls
       ELSE /\ dealCalls' = Append(dealCalls, [cid |-> cid, started |-> now])
            /\ last' = [op |-> "query", cid |-> cid, result |-> Ok]
    /\ UNCHANGED <<dealCache, gatewayVars, failoverVars, registryVars, notifyVars>>

\* getDealInfo from the outcome of its query to its return. (Its own catch
\* block is not reached: fetchDealFromW3S catches what its request and its
\* parsing throw, and cacheDeal catches what the storage throws.)
QuerySettles(c, outcome) ==
    /\ c \in 1..Len(dealCalls)
    /\ LET cid == dealCalls[c].cid
           dealInfo == FetchDealFromW3S(cid, outcome, now)
       IN  /\ dealCache' = CacheDeal(cid, dealInfo)
           /\ last' = [op |-> "getDealInfo", cid |-> cid,
                       result |-> dealInfo, queried |-> TRUE,
                       started |-> dealCalls[c].started,
                       outcome |-> outcome,
                       deleted |-> {key \in DealKeys : Evicted(key)}]
    /\ dealCalls' = SubSeq(dealCalls, 1, c - 1)
                        \o SubSeq(dealCalls, c + 1, Len(dealCalls))
    /\ UNCHANGED <<gatewayVars, failoverVars, registryVars, notifyVars>>

\* clearDealCache: localStorage.removeItem(DEAL_CACHE_KEY)
ClearDealCache ==
    /\ dealCache' = [key \in DealKeys |-> <<>>]
    /\ last' = [op |-> "clearDealCache", result |-> Ok]
    /\ UNCHANGED <<dealCalls, gatewayVars, failoverVars, registryVars, notifyVars>>

\* getDealHealthScore; the argument is the empty sequence for a missing
\* summary (null, undefined), else the one-element sequence of the summary.
GetDealHealthScore_CountFirst(dealInfo) ==
    LET deals == IF dealInfo # <<>> /\ "deals" \in DOMAIN dealInfo[1]
                 THEN dealInfo[1].deals ELSE <<>>
        activeCount == Len(SelectSeq(deals, LAMBDA d : d.status = "active"))
    IN  IF activeCount >= 3
        THEN [score |-> 100, label |-> "Excellent", color |-> "green"]
        ELSE IF activeCount >= 2
        THEN [score |-> 80, label |-> "Good", color |-> "green"]
        ELSE IF activeCount = 1
        THEN [score |-> 60, label |-> "Fair", color |-> "yellow"]
        ELSE IF dealInfo = <<>> \/ dealInfo[1].status = "not_found"
        THEN [score |-> 0, label |-> "No Data", color |-> "gray"]
        ELSE IF dealInfo[1].status = "pending"
        THEN [score |-> 40, label |-> "Pending", color |-> "yellow"]
        ELSE [score |-> 20, label |-> "At Risk", color |-> "red"]

GetDealHealthScore(dealInfo) ==
    IF dealInfo = <<>> \/ dealInfo[1].status = "not_found"
    THEN [score |-> 0, label |-> "No Data", color |-> "gray"]
    ELSE LET deals == IF "deals" \in DOMAIN dealInfo[1]
                      THEN dealInfo[1].deals ELSE <<>>
             activeCount ==
                 Len(SelectSeq(deals, LAMBDA d : d.status = "active"))
         IN  IF activeCount >= 3
             THEN [score |-> 100, label |-> "Excellent", color |-> "green"]
             ELSE IF activeCount >= 2
             THEN [score |-> 80, label |-> "Good", color |-> "green"]
             ELSE IF activeCount = 1
             THEN [score |-> 60, label |-> "Fair", color |-> "yellow"]
             ELSE IF dealInfo[1].status = "pending"
             THEN [score |-> 40, label |-> "Pending", color |-> "yellow"]
             ELSE [score |-> 20, label |-> "At Risk", color |-> "red"]

\* parseW3SResponse and getDealHealthScore applied to an input.
ParseResponse(data) ==
    /\ last' = [op |-> "parseW3SResponse", data |-> data,
                result |-> ParseW3SResponse(data)]
    /\ UNCHANGED <<serviceVars, registryVars>>

DealHealthScore(dealInfo) ==
    /\ last' = [op |-> "getDealHealthScore", dealInfo |-> dealInfo,
                result |-> GetDealHealthScore(dealInfo)]
    /\ UNCHANGED <<serviceVars, registryVars>>

(***************************************************************************)
(* The webhooks: src/lib/webhooks.js                                       *)
(*                                                                         *)
(* A stored webhook is { id, name, url, events, secret, enabled,           *)
(* createdAt, lastTriggered, successCount, failCount }. name, createdAt    *)
(* and lastTriggered are written and never read by the code: the model     *)
(* leaves them out. The storage is taken to accept every write.            *)
(***************************************************************************)
\* WEBHOOK_EVENTS, the two of them part_003 triggers.
WEBHOOK_EVENTS == {"proof_created", "proof_verified"}
\* The events arrays a configuration carries.
EventLists ==
    {<<>>, <<"proof_created">>, <<"proof_verified">>,
     <<"proof_created", "proof_verified">>}
\* config.url: none, a string new URL() rejects, a string it accepts.
Urls == {"", "hook", "https://hook.example/in"}
\* webhook.secret: null and '' are both falsy (here ""), or a key.
Secrets == {"", "key"}
\* logs.slice(0, 100)
KeepLogs == 100
\* What the POST of dispatchWebhook gives: with mode 'no-cors' every
\* response is opaque and resolves the fetch, whatever its status; a
\* network failure rejects it.
PostOutcomes == {"200", "500", "Failed to fetch"}

\* array.includes(x)
Includes(array, x) == \E i \in DOMAIN array : array[i] = x
\* array.filter(test)
Filter(array, Test(_)) == SelectSeq(array, Test)
\* array.findIndex(test), 0 for -1 (the indexes of a sequence start at 1).
FindIndex(array, Test(_)) ==
    IF \E i \in DOMAIN array : Test(array[i])
    THEN CHOOSE i \in DOMAIN array :
            Test(array[i]) /\ \A k \in 1..(i - 1) : ~Test(array[k])
    ELSE 0

\* new URL(url) does not throw.
ParsesAsUrl(url) == url = "https://hook.example/in"

\* `wh-${Date.now()}-${random}`: an id no webhook was given before.
HookId(n) == <<"wh", n>>

HooksInit ==
    /\ webhooks = <<>>
    /\ webhookLogs = <<>>
    /\ deliveries = {}
    /\ created = 0
    /\ triggered = 0
    /\ logged = 0

\* createWebhook: the message of the Error it throws, or Ok.
CreateWebhookThrow(url, events) ==
    IF url = "" THEN "Webhook URL is required"
    ELSE IF Len(events) = 0 THEN "At least one event must be selected"
    ELSE IF ~ParsesAsUrl(url) THEN "Invalid webhook URL"
    ELSE Ok

NewWebhook(id, url, events, secret) ==
    [id |-> id, url |-> url, events |-> events, secret |-> secret,
     enabled |-> TRUE, successCount |-> 0, failCount |-> 0]

CreateWebhook(url, events, secret) ==
    /\ IF CreateWebhookThrow(url, events) = Ok
       THEN /\ webhooks' = Append(webhooks,
                    NewWebhook(HookId(created + 1), url, events, secret))
            /\ created' = created + 1
       ELSE UNCHANGED <<webhooks, created>>
    /\ last' = [op |-> "createWebhook", url |-> url, events |-> events,
                result |-> CreateWebhookThrow(url, events)]
    /\ UNCHANGED <<webhookLogs, deliveries, triggered, logged, apiVars,
                   gatewayVars, failoverVars, dealVars, registryVars>>

\* updates[key] !== undefined: a field of updates is the empty sequence
\* when the key is absent, else the one-element sequence of its value.
Updated(webhook, updates) ==
    [webhook EXCEPT
        !.url = IF updates.url # <<>> THEN updates.url[1] ELSE @,
        !.events = IF updates.events # <<>> THEN updates.events[1] ELSE @,
        !.secret = IF updates.secret # <<>> THEN updates.secret[1] ELSE @,
        !.enabled = IF updates.enabled # <<>> THEN updates.enabled[1] ELSE @]

UpdateWebhookThrow(id) ==
    IF FindIndex(webhooks, LAMBDA w : w.id = id) = 0
    THEN "Webhook not found" ELSE Ok

UpdateWebhook(id, updates) ==
    /\ IF UpdateWebhookThrow(id) = Ok
       THEN LET index == FindIndex(webhooks, LAMBDA w : w.id = id)
            IN  webhooks' = [webhooks EXCEPT
                                ![index] = Updated(webhooks[index], updates)]
       ELSE UNCHANGED webhooks
    /\ last' = [op |-> "updateWebhook", id |-> id, updates |-> updates,
                result |-> UpdateWebhookThrow(id)]
    /\ UNCHANGED <<webhookLogs, deliveries, created, triggered, logged,
                   apiVars, gatewayVars, failoverVars, dealVars,
                   registryVars>>

DeleteWebhook(id) ==
    /\ webhooks' = Filter(webhooks, LAMBDA w : w.id # id)
    /\ last' = [op |-> "deleteWebhook", id |-> id, result |-> Ok]
    /\ UNCHANGED <<webhookLogs, deliveries, created, triggered, logged,
                   apiVars, gatewayVars, failoverVars, dealVars,
                   registryVars>>

\* The filter of triggerWebhook.
Eligible_Subscribed(w, event) == Includes(w.events, event)

Eligible(w, event) == w.enabled /\ Includes(w.events, event)

\* dispatchWebhook(webhook, eventPayload) up to its first await: with a
\* secret it waits for generateSignature, without one its POST has left.
Dispatch(w, trigger, event) ==
    [trigger |-> trigger, webhook |-> w.id, event |-> event,
     phase |-> IF w.secret # "" THEN "signing" ELSE "request"]

\* The calls triggerWebhook makes, none of them awaited.
Dispatched(event) ==
    {Dispatch(webhooks[i], triggered + 1, event) :
        i \in {k \in DOMAIN webhooks : Eligible(webhooks[k], event)}}

\* The body of triggerWebhook: it has no await, so it runs in one piece
\* when it is called.
Triggered(event) ==
    /\ deliveries' = deliveries \cup Dispatched(event)
    /\ triggered' = triggered + 1
    /\ UNCHANGED <<webhooks, webhookLogs, created, logged>>

TriggerWebhook(event) ==
    /\ Triggered(event)
    /\ last' = [op |-> "triggerWebhook", event |-> event,
                trigger |-> triggered + 1, result |-> Ok]
    /\ UNCHANGED <<apiVars, gatewayVars, failoverVars, dealVars,
                   registryVars>>

\* generateSignature has returned: the POST leaves.
SignatureSettles(d) ==
    /\ d \in deliveries
    /\ d.phase = "signing"
    /\ deliveries' = (deliveries \ {d}) \cup {[d EXCEPT !.phase = "request"]}
    /\ UNCHANGED <<webhooks, webhookLogs, created, triggered, logged, apiVars,
                   gatewayVars, failoverVars, dealVars, registryVars, last>>

\* logWebhookEvent: logs.unshift(entry), logs.slice(0, 100). The entry's
\* timestamp is the instant of the write, here the number of the write.
LogWebhookEvent_Unbounded(logs, webhookId, event, success, error) ==
    <<[webhookId |-> webhookId, event |-> event, success |-> success,
       error |-> error, timestamp |-> logged + 1]>> \o logs

LogWebhookEvent(logs, webhookId, event, success, error) ==
    SliceFirst(
        <<[webhookId |-> webhookId, event |-> event, success |-> success,
           error |-> error, timestamp |-> logged + 1]>> \o logs,
        KeepLogs)

\* updateWebhookStats, on the webhooks as they are stored when it runs.
UpdateWebhookStats_FailOnly(hooks, webhookId, success) ==
    LET index == FindIndex(hooks, LAMBDA w : w.id = webhookId)
    IN  IF index = 0 THEN hooks
        ELSE IF success THEN hooks
        ELSE [hooks EXCEPT ![index].failCount = @ + 1]

UpdateWebhookStats(hooks, webhookId, success) ==
    LET index == FindIndex(hooks, LAMBDA w : w.id = webhookId)
    IN  IF index = 0 THEN hooks
        ELSE IF success
        THEN [hooks EXCEPT ![index].successCount = @ + 1]
        ELSE [hooks EXCEPT ![index].failCount = @ + 1]

\* What dispatchWebhook does with the outcome of its POST: one POST per
\* call, nothing sent again.
Resent_OnFailure(d, outcome) ==
    IF outcome = "Failed to fetch" THEN {d} ELSE {}

Resent(d, outcome) == {}

\* dispatchWebhook from the outcome of its POST to its end: what it does
\* to the store, to the log and to the calls in flight.
Delivered(d, outcome) ==
    /\ d \in deliveries
    /\ d.phase = "request"
    /\ LET success == outcome # "Failed to fetch"
           error == IF success THEN "null" ELSE outcome
       IN  /\ webhookLogs' = LogWebhookEvent(webhookLogs, d.webhook, d.event,
                                             success, error)
           /\ webhooks' = UpdateWebhookStats(webhooks, d.webhook, success)
    /\ logged' = logged + 1
    /\ deliveries' = (deliveries \ {d}) \cup Resent(d, outcome)
    /\ UNCHANGED <<created, triggered, apiVars, gatewayVars, failoverVars,
                   dealVars, registryVars>>

\* dispatchWebhook catching the failure and throwing it again.
DeliverySettles_Raised(d, outcome) ==
    /\ Delivered(d, outcome)
    /\ last' = IF outcome = "Failed to fetch"
               THEN [op |-> last.op, result |-> outcome]
               ELSE last

\* Nobody holds the promise of dispatchWebhook, and its catch block throws
\* nothing: it ends without a result for any caller.
DeliverySettles(d, outcome) ==
    /\ Delivered(d, outcome)
    /\ UNCHANGED last

\* clearWebhookLogs(webhookId): the empty sequence for no argument (null).
ClearWebhookLogs(webhookId) ==
    /\ webhookLogs' =
            IF webhookId # <<>>
            THEN Filter(webhookLogs, LAMBDA l : l.webhookId # webhookId)
            ELSE <<>>
    /\ last' = [op |-> "clearWebhookLogs", webhookId |-> webhookId,
                result |-> Ok]
    /\ UNCHANGED <<webhooks, deliveries, created, triggered, logged, apiVars,
                   gatewayVars, failoverVars, dealVars, registryVars>>

(***************************************************************************)
(* The API service: unnamed/part_003                                       *)
(*                                                                         *)
(* uploadFile (./web3storage) and saveProof, getProofById (./proofStorage) *)
(* are imported from files that are not part of the sources: they are      *)
(* modelled from the specification, as an upload that gives the locator    *)
(* of the content or fails, and as a store of proof records keyed by       *)
(* proofId.                                                                *)
(***************************************************************************)
HexDigits ==
    <<"0", "1", "2", "3", "4", "5", "6", "7", "8", "9", "a", "b", "c", "d",
      "e", "f">>

\* The digest of the file n, as a hex string: b.toString(16).padStart(2, '0').
DigestOf(n) == <<HexDigits[(n \div 16) + 1], HexDigits[(n % 16) + 1]>>

\* The contents of a file: one byte.
Bytes == {1, 2}
\* fileData: an ArrayBuffer or a Blob of some content, or something else.
FileData ==
    [kind : {"ArrayBuffer", "Blob"}, bytes : Bytes]
        \cup [kind : {"string"}, bytes : {1}]
\* The proofIds verifyProof is called with: the first two generated ones
\* and one that is never generated.
ApiProofIds == {<<"PV", 1>>, <<"PV", 2>>, <<"PV", 0>>}

\* hashBuffer: the SHA-256 digest as lower-case hex digits; the digest is
\* taken as injective, here the byte itself.
HashBuffer(bytes) == DigestOf(bytes)

\* uploadFile: the locator of the content.
CidOf(bytes) == <<"bafy", bytes>>
\* cid = null
NullCid == <<>>

\* generateProofId: `PV-${Date.now()}-${random}`, an id not given before.
GenerateProofId == <<"PV", Len(savedProofs) + 1>>

\* saveProof(proof)
SaveProof(saved, proof) == Append(saved, proof)

\* getProofById(proofId): the empty sequence for null.
GetProofById(proofId) ==
    LET index == FindIndex(savedProofs, LAMBDA p : p.proofId = proofId)
    IN  IF index = 0 THEN <<>> ELSE <<savedProofs[index]>>

ApiInit ==
    /\ savedProofs = <<>>
    /\ apiCalls = {}

\* fileData instanceof ArrayBuffer, Blob or File
IsFileData(fileData) == fileData.kind \in {"ArrayBuffer", "Blob"}

\* What createProof and verifyProof return from their catch block.
Failure(message) == [success |-> FALSE, verified |-> FALSE, error |-> message]

\* createProof up to its first await. A call that is given no file data
\* returns from its catch block at once.
CreateProof(fileData, skipUpload) ==
    /\ IF IsFileData(fileData)
       THEN /\ apiCalls' = apiCalls \cup
                    {[op |-> "createProof", bytes |-> fileData.bytes,
                      skipUpload |-> skipUpload, phase |-> "hashing"]}
            /\ last' = [op |-> "hashBuffer", result |-> Ok]
       ELSE /\ last' = [op |-> "createProof", persisted |-> FALSE,
                        notified |-> FALSE,
                        result |-> Failure("Invalid file data format")]
            /\ UNCHANGED apiCalls
    /\ UNCHANGED <<savedProofs, hookVars, gatewayVars, failoverVars, dealVars,
                   registryVars>>

\* The proof createProof builds.
NewProof(bytes, cid) ==
    [proofId |-> GenerateProofId, sha256Hash |-> HashBuffer(bytes),
     cid |-> cid]

\* The last part of createProof: saveProof(proof), then
\* triggerWebhook('proof_created', proof), not awaited, then the return.
\* stored says whether saveProof returns (TRUE) or throws.
Notified_First(stored) == TRUE

Notified(stored) == stored

PersistAndNotify(bytes, cid, stored) ==
    /\ savedProofs' = IF stored
                      THEN SaveProof(savedProofs, NewProof(bytes, cid))
                      ELSE savedProofs
    /\ IF Notified(stored)
       THEN Triggered("proof_created")
       ELSE UNCHANGED hookVars
    /\ last' = [op |-> "createProof", persisted |-> stored,
                notified |-> Notified(stored),
                trigger |-> triggered + 1,
                result |-> IF stored
                           THEN [success |-> TRUE,
                                 data |-> NewProof(bytes, cid)]
                           ELSE Failure("saveProof failed")]

\* verifyProof up to its first await. The proof is read before the file.
VerifyProof_Api(proofId, fileData) ==
    /\ IF GetProofById(proofId) = <<>>
       THEN /\ last' = [op |-> "verifyProof", proofId |-> proofId,
                        notified |-> FALSE,
                        result |-> Failure("Proof not found")]
            /\ UNCHANGED apiCalls
       ELSE IF ~IsFileData(fileData)
       THEN /\ last' = [op |-> "verifyProof", proofId |-> proofId,
                        notified |-> FALSE,
                        result |-> Failure("Invalid file data format")]
            /\ UNCHANGED apiCalls
       ELSE /\ apiCalls' = apiCalls \cup
                    {[op |-> "verifyProof", proofId |-> proofId,
                      proof |-> GetProofById(proofId)[1],
                      bytes |-> fileData.bytes, phase |-> "hashing"]}
            /\ last' = [op |-> "hashBuffer", result |-> Ok]
    /\ UNCHANGED <<savedProofs, hookVars, gatewayVars, failoverVars, dealVars,
                   registryVars>>

\* fileHash === proof.sha256Hash
IsMatch_Always(fileHash, proof) == TRUE

IsMatch(fileHash, proof) == fileHash = proof.sha256Hash

\* The file has been read and hashed, or one of the two has failed:
\* createProof goes on to its upload or, with skipUpload, to its end;
\* verifyProof compares, triggers 'proof_verified' and returns.
HashSettles(call, hashed, stored) ==
    /\ call \in apiCalls
    /\ call.phase = "hashing"
    /\ IF ~hashed
       THEN /\ apiCalls' = apiCalls \ {call}
            /\ last' = IF call.op = "verifyProof"
                       THEN [op |-> "verifyProof", proofId |-> call.proofId,
                             notified |-> FALSE, bytes |-> call.bytes,
                             result |-> Failure("hashing failed")]
                       ELSE [op |-> "createProof", persisted |-> FALSE,
                             notified |-> FALSE, bytes |-> call.bytes,
                             result |-> Failure("hashing failed")]
            /\ UNCHANGED <<savedProofs, hookVars>>
       ELSE IF call.op = "verifyProof"
       THEN /\ apiCalls' = apiCalls \ {call}
            /\ Triggered("proof_verified")
            /\ last' = [op |-> "verifyProof", proofId |-> call.proofId,
                        notified |-> TRUE, bytes |-> call.bytes,
                        trigger |-> triggered + 1,
                        result |->
                            [success |-> TRUE,
                             verified |->
                                 IsMatch(HashBuffer(call.bytes), call.proof),
                             proof |-> call.proof,
                             providedHash |-> HashBuffer(call.bytes),
                             expectedHash |-> call.proof.sha256Hash]]
            /\ UNCHANGED savedProofs
       ELSE IF call.skipUpload
       THEN /\ apiCalls' = apiCalls \ {call}
            /\ PersistAndNotify(call.bytes, NullCid, stored)
       ELSE /\ apiCalls' =
                    (apiCalls \ {call}) \cup {[call EXCEPT !.phase = "uploading"]}
            /\ last' = [op |-> "uploadFile", result |-> Ok]
            /\ UNCHANGED <<savedProofs, hookVars>>
    /\ UNCHANGED <<gatewayVars, failoverVars, dealVars, registryVars>>

\* uploadFile has settled: createProof fails, or goes on to its end.
UploadSettles(call, uploaded, stored) ==
    /\ call \in apiCalls
    /\ call.phase = "uploading"
    /\ apiCalls' = apiCalls \ {call}
    /\ IF ~uploaded
       THEN /\ last' = [op |-> "createProof", persisted |-> FALSE,
                        notified |-> FALSE, bytes |-> call.bytes,
                        result |-> Failure("upload failed")]
            /\ UNCHANGED <<savedProofs, hookVars>>
       ELSE PersistAndNotify(call.bytes, CidOf(call.bytes), stored)
    /\ UNCHANGED <<gatewayVars, failoverVars, dealVars, registryVars>>

(***************************************************************************)
(* Registration, in either variant, under every input.                     *)
(***************************************************************************)
Init ==
    /\ variant \in {"ledger", "simulated"}
    /\ proofs = [id \in ProofIds |-> ZeroProof]
    /\ hashToProofId = [h \in Bytes32 |-> ""]
    /\ cidToProofId = [c \in Cids |-> ""]
    /\ proofDeals = [id \in ProofIds |-> <<>>]
    /\ totalProofs = 0
    /\ totalDealsTracked = 0
    /\ blockNumber = 1
    /\ blockTimestamp = 1
    /\ clock = 1
    /\ simProofs = <<>>
    /\ simBlockNumber = 1
    /\ simTimestamp = clock
    /\ simTransactions = <<>>
    /\ simNfts = <<>>
    /\ simNftCounter = 1
    /\ simStorage = NoItem
    /\ simPending = {}
    /\ GatewaysInit
    /\ FailoverInit
    /\ DealsInit
    /\ HooksInit
    /\ ApiInit
    /\ last = [op |-> "constructor", result |-> Ok]

Next ==
    \/ \E sender \in Addresses, proofId \in ProofIds, sha256Hash \in Bytes32,
          cid \in Cids, storageProvider \in StorageProviders :
            RegisterProof(sender, proofId, sha256Hash, cid, storageProvider)
    \/ NewBlock
    \/ \E proofId \in ProofIds, sha256Hash \in SimHashes, cid \in SimCids,
          txHash \in TxHashes :
            /\ SimRegisterProofThrow(proofId, sha256Hash) = Ok
                    => Len(simProofs) < MaxSimProofs
            /\ SimRegisterProof(proofId, sha256Hash, cid, txHash)
            /\ UNCHANGED simPending
    \/ Tick

Spec == Init /\ [][Next]_vars

(***************************************************************************)
(* The ledger contract with its deal tracking: registration with one       *)
(* non-empty locator and within one block, deals linked up to MaxDeals.    *)
(***************************************************************************)
DealInit == Init /\ variant = "ledger"

DealNext ==
    \/ \E sender \in Addresses, proofId \in ProofIds, sha256Hash \in Bytes32,
          cid \in DealCids, storageProvider \in StorageProviders :
            RegisterProof(sender, proofId, sha256Hash, cid, storageProvider)
    \/ \E sender \in Addresses, proofId \in ProofIds, dealId \in DealIds,
          provider \in Providers, startEpoch \in StartEpochs,
          endEpoch \in EndEpochs :
            /\ LinkDealRequire(sender, proofId) = Ok
                    => totalDealsTracked < MaxDeals
            /\ LinkDeal(sender, proofId, dealId, provider, startEpoch, endEpoch)
    \/ \E sender \in Addresses, proofId \in ProofIds,
          dealIndex \in DealIndexes, active \in BOOLEAN :
            UpdateDealStatus(sender, proofId, dealIndex, active)

DealSpec == DealInit /\ [][DealNext]_vars

(***************************************************************************)
(* The simulated variant with calls that overlap: a call waits in its      *)
(* delay while others start and return; the page may be loaded again.      *)
(***************************************************************************)
\* The arguments of the overlapping calls.
OverlapProofIds == {"PV-1", "PV-2"}
OverlapHashes == {<<"a", "b">>, <<"c", "d">>}
OverlapCids == {"bafy1"}
OverlapTxHashes == {"0xaa"}

\* The calls a caller can make.
SimCalls ==
    [op : {"registerProof"}, proofId : OverlapProofIds,
     sha256Hash : OverlapHashes, cid : OverlapCids]
    \cup [op : {"mintProof"}, proofId : OverlapProofIds,
          sha256Hash : {<<"a", "b">>}, cid : OverlapCids]

\* A call starts: it waits for its timer (the await of its first line).
\* simPending holds the calls in flight, one of each kind at most.
SimCall(call) ==
    /\ variant = "simulated"
    /\ Cardinality(simPending) < MaxPending
    /\ call \notin simPending
    /\ simPending' = simPending \cup {call}
    /\ UNCHANGED <<serviceVars, variant, ledgerVars, simFields, clock, simStorage, last>>

\* The timer of a waiting call fires: the rest of the call runs.
SimReturn(call, txHash) ==
    /\ call \in simPending
    /\ simPending' = simPending \ {call}
    /\ IF call.op = "registerProof"
       THEN /\ SimRegisterProofThrow(call.proofId, call.sha256Hash) = Ok
                 => Len(simProofs) < MaxSimProofs
            /\ SimRegisterProof(call.proofId, call.sha256Hash, call.cid,
                                txHash)
       ELSE /\ SimMintProofThrow(call.proofId) = Ok
                 => Len(simNfts) < MaxSimNfts
            /\ \E fileName \in FileNames, fileSize \in FileSizes :
                  SimMintProof(call.proofId, call.sha256Hash, call.cid,
                               fileName, fileSize, txHash)

SimInit == Init /\ variant = "simulated"

SimNext ==
    \/ \E call \in SimCalls : SimCall(call)
    \/ \E call \in simPending, txHash \in OverlapTxHashes :
          SimReturn(call, txHash)
    \/ SimReload

SimSpec == SimInit /\ [][SimNext]_vars

(***************************************************************************)
(* The simulated variant over a long run: the n-th proof is registered and *)
(* then minted, for n = 1, 2, ...; the page may be loaded again at any     *)
(* point. Here a proofId is the number n and its digest is two hex digits. *)
(***************************************************************************)
RowNext ==
    \/ \E n \in 1..MaxInRow :
          /\ n = Len(simProofs) + 1
          /\ Len(simNfts) = Len(simProofs)
          /\ SimRegisterProof(n, DigestOf(n), "bafy1", "0xaa")
          /\ UNCHANGED simPending
    \/ \E n \in 1..MaxInRow, fileName \in FileNames, fileSize \in FileSizes :
          /\ n = Len(simNfts) + 1
          /\ n = Len(simProofs)
          /\ SimMintProof(n, DigestOf(n), "bafy1", fileName, fileSize, "0xaa")
          /\ UNCHANGED simPending
    \/ SimReload

RowSpec == SimInit /\ [][RowNext]_vars

(***************************************************************************)
(* The two variants side by side: each registerProof call is given to the  *)
(* contract and to the simulated instance.                                 *)
(***************************************************************************)
\* One digest as each variant receives it: the bytes32 of the contract and
\* the hex string of the simulated variant (none, in either letter case).
PairHashes ==
    {<<0, <<>>>>, <<1, <<"a", "b">>>>, <<1, <<"A", "B">>>>,
     <<2, <<"c", "d">>>>}

PairInit ==
    /\ variant = "both"
    /\ proofs = [id \in ProofIds |-> ZeroProof]
    /\ hashToProofId = [h \in Bytes32 |-> ""]
    /\ cidToProofId = [c \in Cids |-> ""]
    /\ proofDeals = [id \in ProofIds |-> <<>>]
    /\ totalProofs = 0
    /\ totalDealsTracked = 0
    /\ blockNumber = 1
    /\ blockTimestamp = 1
    /\ clock = 1
    /\ simProofs = <<>>
    /\ simBlockNumber = 1
    /\ simTimestamp = clock
    /\ simTransactions = <<>>
    /\ simNfts = <<>>
    /\ simNftCounter = 1
    /\ simStorage = NoItem
    /\ simPending = {}
    /\ GatewaysInit
    /\ FailoverInit
    /\ DealsInit
    /\ HooksInit
    /\ ApiInit
    /\ last = [op |-> "constructor", result |-> <<Ok, Ok>>]

\* One call, made on both: last.result is the pair of the outcomes.
PairRegisterProof(sender, proofId, hash, cid, storageProvider, txHash) ==
    /\ variant = "both"
    /\ RegisterProofTx(sender, proofId, hash[1], cid, storageProvider)
    /\ SimRegisterProofRun(proofId, hash[2], cid, txHash)
    /\ last' = [op |-> "registerProof",
                result |-> <<RegisterProofRequire(proofId, hash[1], cid),
                             SimRegisterProofThrow(proofId, hash[2])>>]
    /\ UNCHANGED <<serviceVars, variant, simPending>>

PairNext ==
    \E sender \in Addresses, proofId \in ProofIds, hash \in PairHashes,
       cid \in SimCids, storageProvider \in StorageProviders,
       txHash \in OverlapTxHashes :
        /\ SimRegisterProofThrow(proofId, hash[2]) = Ok
                => Len(simProofs) < MaxSimProofs
        /\ PairRegisterProof(sender, proofId, hash, cid, storageProvider,
                             txHash)

PairSpec == PairInit /\ [][PairNext]_vars

(***************************************************************************)
(* Health checks of single gateways over time: calls overlap, the cache    *)
(* ages and may be cleared.                                                *)
(***************************************************************************)
\* The instants looked at: around one and two intervals after the start.
Times == {0, 59999, 60000, 119999, 120000}
CheckedIds == {"w3s", "dweb"}
CheckedOutcomes ==
    {o \in Outcomes :
        o.kind = "response" => o.latency = 50 \/ (o.ok /\ o.latency = 0)}

HealthInit == Init /\ variant = "simulated"

HealthNext ==
    \/ \E id \in CheckedIds :
          /\ ~Fresh(id) => probing[id] < MaxProbes
          /\ CheckGatewayHealth(id)
    \/ \E id \in CheckedIds, outcome \in CheckedOutcomes :
          ProbeSettles(id, outcome)
    \/ \E t \in Times : Advance(t)
    \/ ClearHealthCache

HealthSpec == HealthInit /\ [][HealthNext]_vars

(***************************************************************************)
(* The ranking of the gateways and the URL built from it, under every      *)
(* combination of probe outcomes.                                          *)
(***************************************************************************)
GatewayCids == {"bafy1"}
RankOutcomes ==
    {o \in Outcomes :
        /\ o.kind \in {"response", "AbortError"}
        /\ (o.kind = "response" /\ ~o.ok) => o.latency = 50}

\* The gateways a call made now has to probe.
Stale == {id \in GatewayIds : ~Fresh(id)}

RankNext ==
    \/ \E outcomes \in [Stale -> RankOutcomes] :
          GetGatewaysWithHealth(outcomes)
    \/ \E cid \in GatewayCids, outcomes \in [Stale -> RankOutcomes] :
          GetOptimizedUrl(cid, outcomes)

RankSpec == HealthInit /\ [][RankNext]_vars

(***************************************************************************)
(* Retrieval with failover: one call at a time, over every ranking of the  *)
(* gateways and every outcome of each request.                             *)
(***************************************************************************)
FailoverOutcomes ==
    {o \in Outcomes :
        \/ o.kind = "AbortError"
        \/ o.kind = "response" /\ o.ok /\ o.latency \in {50, 200}}

FailoverNext ==
    \/ \E cid \in GatewayCids, outcomes \in [Stale -> FailoverOutcomes] :
          FetchWithFailover(cid, outcomes)
    \/ \E outcome \in FetchOutcomes : RequestSettles(outcome)

FailoverSpec == HealthInit /\ [][FailoverNext]_vars

(***************************************************************************)
(* Deal lookups over time: calls overlap, the cache ages past one and two  *)
(* TTLs and may be cleared.                                                *)
(***************************************************************************)
DealTimes == {0, 299999, 300000, 600000, 600001}
DealLocators == DealKeys \cup {<<>>}

\* A body with one deal the source reports as active.
OneActiveDeal ==
    [deals |-> <<[dealId |-> 7, storageProvider |-> "f02620",
                  status |-> <<"A", "c", "t", "i", "v", "e">>,
                  dealActivation |-> 1000, dealExpiration |-> 2000]>>,
     pins |-> <<"pinned">>]

QueryOutcomes ==
    {[kind |-> "response", status |-> 200, body |-> <<OneActiveDeal>>],
     [kind |-> "response", status |-> 200, body |-> <<>>],
     [kind |-> "response", status |-> 404],
     [kind |-> "response", status |-> 500],
     [kind |-> "TypeError"]}

DealInfoNext ==
    \/ \E cid \in DealLocators :
          /\ (cid # <<>> /\ ~DealFresh(cid)) => Len(dealCalls) < MaxDealCalls
          /\ GetDealInfo(cid)
    \/ \E c \in 1..Len(dealCalls), outcome \in QueryOutcomes :
          QuerySettles(c, outcome)
    \/ \E t \in DealTimes : Advance(t)
    \/ ClearDealCache

DealInfoSpec == HealthInit /\ [][DealInfoNext]_vars

(***************************************************************************)
(* Summaries and their health score, under every answer of the source and  *)
(* every summary a caller may hand over.                                   *)
(***************************************************************************)
\* The status strings of an answer: in the spellings of the source, one the
\* switch does not know, and the empty one.
RawStatuses ==
    {<<"A", "c", "t", "i", "v", "e">>,
     <<"A", "c", "t", "i", "v", "e", "D", "e", "a", "l">>,
     Chars_queued,
     <<"E", "x", "p", "i", "r", "e", "d">>,
     Chars_slashed,
     <<"F", "a", "i", "l", "e", "d">>,
     <<>>}

\* All sequences over a set, up to a length.
SeqsUpTo(set, n) == UNION {[1..m -> set] : m \in 0..n}

\* The parsed bodies: a list of up to MaxBodyDeals deals, or no list at all.
Bodies ==
    {[deals |-> [i \in 1..Len(statuses) |->
                    [dealId |-> i, storageProvider |-> "f02620",
                     status |-> statuses[i],
                     dealActivation |-> 1000, dealExpiration |-> 2000]],
      pins |-> <<"pinned">>] : statuses \in SeqsUpTo(RawStatuses, MaxBodyDeals)}
    \cup {[pins |-> <<>>]}

DealStatuses ==
    {"unknown", "pending", "active", "expired", "slashed", "not_found"}

\* The summaries handed to getDealHealthScore: any status with any list of
\* up to MaxBodyDeals deals, a summary without a list, and none at all.
Summaries ==
    {<<[status |-> status,
        deals |-> [i \in 1..Len(statuses) |-> [status |-> statuses[i]]]]>> :
         status \in DealStatuses,
         statuses \in SeqsUpTo(DealStatuses \ {"not_found"}, MaxBodyDeals)}
    \cup {<<[status |-> status]>> : status \in DealStatuses}
    \cup {<<>>}

SummaryNext ==
    \/ \E data \in Bodies : ParseResponse(data)
    \/ \E dealInfo \in Summaries : DealHealthScore(dealInfo)

SummarySpec == HealthInit /\ [][SummaryNext]_vars

(***************************************************************************)
(* The webhook store and its deliveries: webhooks are created, changed and *)
(* deleted while events are triggered and deliveries are in flight.        *)
(***************************************************************************)
\* The ids createWebhook gives, and one it never gives.
HookIds == {HookId(n) : n \in 0..MaxHooks}
\* The url and the events createWebhook is called with.
HookUrl == "https://hook.example/in"
HookEvents == {<<"proof_created">>, <<"proof_created", "proof_verified">>}
\* The updates updateWebhook is called with.
NoUpdate == [url |-> <<>>, events |-> <<>>, secret |-> <<>>, enabled |-> <<>>]
HookUpdates == {[NoUpdate EXCEPT !.enabled = <<FALSE>>]}
\* The webhook that is changed, and the one that is deleted.
ChangedIds == {HookId(2)}
DeletedIds == {HookId(1)}

HookNext ==
    \/ \E events \in HookEvents, secret \in Secrets :
          /\ created < MaxHooks
          /\ CreateWebhook(HookUrl, events, secret)
    \/ \E id \in ChangedIds, updates \in HookUpdates :
          UpdateWebhook(id, updates)
    \/ \E id \in DeletedIds : DeleteWebhook(id)
    \/ \E event \in WEBHOOK_EVENTS :
          /\ triggered < MaxTriggers
          /\ TriggerWebhook(event)
    \/ \E d \in deliveries : SignatureSettles(d)
    \/ \E d \in deliveries, outcome \in PostOutcomes :
          DeliverySettles(d, outcome)

HookSpec == HealthInit /\ [][HookNext]_vars

(***************************************************************************)
(* The webhook store alone, under every configuration and every update.    *)
(***************************************************************************)
StoreUpdates ==
    {[NoUpdate EXCEPT !.events = <<events>>] : events \in EventLists}
        \cup {[NoUpdate EXCEPT !.enabled = <<enabled>>] : enabled \in BOOLEAN}
        \cup {[NoUpdate EXCEPT !.url = <<url>>, !.secret = <<secret>>] :
                    url \in Urls, secret \in Secrets}

StoreNext ==
    \/ \E url \in Urls, events \in EventLists, secret \in Secrets :
          /\ created < MaxHooks
          /\ CreateWebhook(url, events, secret)
    \/ \E id \in HookIds, updates \in StoreUpdates : UpdateWebhook(id, updates)
    \/ \E id \in HookIds : DeleteWebhook(id)

StoreSpec == HealthInit /\ [][StoreNext]_vars

(***************************************************************************)
(* The webhook log over a long run: one event after the other is           *)
(* triggered and delivered until the log has been full for some            *)
(* deliveries; a second webhook joins and the log is cleared near the end. *)
(***************************************************************************)
\* The delivery from which on every outcome, a second webhook and the
\* clearing of the log are explored.
LogTail == KeepLogs - 2

LogNext ==
    \/ \E secret \in {""} :
          /\ created < MaxHooks
          /\ created = 0 \/ logged >= LogTail
          /\ CreateWebhook(HookUrl, <<"proof_created">>, secret)
    \/ /\ logged < MaxLogged
       /\ deliveries = {}
       /\ webhooks # <<>>
       /\ TriggerWebhook("proof_created")
    \/ \E d \in deliveries, outcome \in PostOutcomes :
          /\ logged < LogTail => outcome = "200"
          /\ DeliverySettles(d, outcome)
    \/ \E webhookId \in {<<>>, HookId(1)} :
          /\ logged >= LogTail
          /\ ClearWebhookLogs(webhookId)

LogSpec == HealthInit /\ [][LogNext]_vars

(***************************************************************************)
(* The API service: proofs are created and verified, with calls that       *)
(* overlap, while a webhook is subscribed to both events.                  *)
(***************************************************************************)
ApiNext ==
    \/ \E secret \in Secrets :
          /\ created < MaxApiHooks
          /\ CreateWebhook(HookUrl, <<"proof_created", "proof_verified">>,
                           secret)
    \/ \E event \in WEBHOOK_EVENTS :
          /\ triggered < MaxTriggers
          /\ TriggerWebhook(event)
    \/ \E fileData \in FileData, skipUpload \in BOOLEAN :
          /\ Cardinality(apiCalls) < MaxApiCalls
          /\ CreateProof(fileData, skipUpload)
    \/ \E proofId \in ApiProofIds, fileData \in FileData :
          /\ Cardinality(apiCalls) < MaxApiCalls
          /\ VerifyProof_Api(proofId, fileData)
    \/ \E call \in apiCalls, hashed \in BOOLEAN, stored \in BOOLEAN :
          /\ triggered < MaxTriggers
          /\ Len(savedProofs) < MaxSaved
          /\ HashSettles(call, hashed, stored)
    \/ \E call \in apiCalls, uploaded \in BOOLEAN, stored \in BOOLEAN :
          /\ triggered < MaxTriggers
          /\ Len(savedProofs) < MaxSaved
          /\ UploadSettles(call, uploaded, stored)
    \/ \E d \in deliveries : SignatureSettles(d)
    \/ \E d \in deliveries, outcome \in PostOutcomes :
          DeliverySettles(d, outcome)

ApiSpec == HealthInit /\ [][ApiNext]_vars

(***************************************************************************)
(* The simulated variant with overlapping registerProof calls that carry   *)
(* the same proofId or the same hash, in either letter case.               *)
(***************************************************************************)
RaceHashes == {<<"a", "b">>, <<"A", "B">>, <<"c", "d">>}
RaceCalls ==
    [op : {"registerProof"}, proofId : OverlapProofIds,
     sha256Hash : RaceHashes, cid : OverlapCids]

RaceNext ==
    \/ \E call \in RaceCalls : SimCall(call)
    \/ \E call \in simPending, txHash \in OverlapTxHashes :
          SimReturn(call, txHash)

RaceSpec == SimInit /\ [][RaceNext]_vars

(***************************************************************************)
(* The registry with every operation of either variant: the ledger         *)
(* contract with its deals, the simulated variant with its NFTs.           *)
(***************************************************************************)
RegistryNext == DealNext \/ SimNext

RegistrySpec == Init /\ [][RegistryNext]_vars

(***************************************************************************)
(* The claims.                                                             *)
(***************************************************************************)
\* The error kinds of the specification, by revert reason or Error message.
InvalidInput == {"Invalid proof ID", "Invalid hash", "Invalid CID"}
DuplicateProofId == "Proof ID already exists"
DuplicateHash == "Hash already registered"
NotFound == "Proof not found"
Unauthorized == "Not authorized"
IndexOutOfRange == "Invalid deal index"

\* The proofs each variant stores.
StoredIds == {id \in ProofIds : proofs[id].timestamp > 0}
SimStored == {simProofs[i].value : i \in 1..Len(simProofs)}

\* A digest is bound to a stored proof (the simulated variant compares
\* digests case-insensitively).
HashBound(sha256Hash) ==
    \E id \in StoredIds : proofs[id].sha256Hash = sha256Hash
SimHashBound(sha256Hash) ==
    \E p \in SimStored : ToLowerCase(p.sha256Hash) = ToLowerCase(sha256Hash)

\* A call that failed has written nothing.
FailedCallStoresNothing ==
    last'.result # Ok => UNCHANGED <<storage, simFields>>

NoDuplicateHash ==
    /\ \A a, b \in StoredIds :
          a # b => proofs[a].sha256Hash # proofs[b].sha256Hash
    /\ \A i, j \in 1..Len(simProofs) :
          i # j => ToLowerCase(simProofs[i].value.sha256Hash)
                      # ToLowerCase(simProofs[j].value.sha256Hash)

\* What registerProof answers to a hash that is already bound, as C1 claims
\* it: DuplicateHash, whatever the proofId and the locator.
C1_BoundHashAsClaimed ==
    /\ \A sha256Hash \in Bytes32, proofId \in ProofIds, cid \in Cids :
          HashBound(sha256Hash)
            => RegisterProofRequire(proofId, sha256Hash, cid) = DuplicateHash
    /\ \A sha256Hash \in SimHashes, proofId \in ProofIds :
          SimHashBound(sha256Hash)
            => SimRegisterProofThrow(proofId, sha256Hash) = DuplicateHash

\* What it answers: an error in every case, DuplicateHash exactly when no
\* earlier check fails, that check's error otherwise.
C1_BoundHashRefused ==
    /\ \A sha256Hash \in Bytes32, proofId \in ProofIds, cid \in Cids :
          HashBound(sha256Hash)
            => LET reason == RegisterProofRequire(proofId, sha256Hash, cid)
               IN  /\ reason # Ok
                   /\ reason = DuplicateHash
                        <=> (proofId # "" /\ cid # ""
                             /\ proofId \notin StoredIds)
                   /\ (proofId = "" \/ cid = "") => reason \in InvalidInput
                   /\ (proofId # "" /\ cid # "" /\ proofId \in StoredIds)
                        => reason = DuplicateProofId
    /\ \A sha256Hash \in SimHashes, proofId \in ProofIds :
          SimHashBound(sha256Hash)
            => LET reason == SimRegisterProofThrow(proofId, sha256Hash)
               IN  /\ reason # Ok
                   /\ reason = DuplicateHash <=> ~MapHas(simProofs, proofId)
                   /\ MapHas(simProofs, proofId) => reason = DuplicateProofId

\* C1, as claimed: a registerProof whose hash is already bound fails with
\* DuplicateHash whatever its proofId and locator, and stores nothing; no
\* two stored proofs have the same hash.
C1_Original ==
    /\ [](NoDuplicateHash /\ C1_BoundHashAsClaimed)
    /\ [][FailedCallStoresNothing]_vars

\* C1, amended: a registerProof whose hash is already bound fails and
\* stores nothing; it fails with DuplicateHash exactly when no earlier
\* check fails (ledger: proofId and locator non-empty and proofId not
\* registered; simulated: proofId not stored) and with that earlier
\* check's error otherwise; no two stored proofs have the same hash.
C1_HashUniqueness ==
    /\ [](NoDuplicateHash /\ C1_BoundHashRefused)
    /\ [][FailedCallStoresNothing]_vars

\* A second registration of a stored hash was refused as a duplicate hash,
\* in the simulated variant for a digest that differs in case alone.
C1_Witness ==
    /\ last = [op |-> "registerProof", result |-> DuplicateHash]
    /\ \/ variant = "ledger" /\ Cardinality(StoredIds) = 1
       \/ /\ variant = "simulated"
          /\ \E p \in SimStored : p.sha256Hash = <<"A", "B">>

\* C2, as claimed: no two stored proofs have the same content locator, and
\* getProofByCid of a stored proof's locator returns the proof.
C2_LocatorUniqueness ==
    /\ \A a, b \in StoredIds : a # b => proofs[a].cid # proofs[b].cid
    /\ \A id \in StoredIds : GetProofByCid(proofs[id].cid) = proofs[id]
    /\ \A i, j \in 1..Len(simProofs) :
          i # j => simProofs[i].value.cid # simProofs[j].value.cid

\* What registerProof answers to a proofId that exists, as C3 claims it:
\* DuplicateProofId.
C3_ExistingIdAsClaimed ==
    /\ \A proofId \in StoredIds, sha256Hash \in Bytes32, cid \in Cids :
          RegisterProofRequire(proofId, sha256Hash, cid) = DuplicateProofId
    /\ \A proofId \in ProofIds, sha256Hash \in SimHashes :
          MapHas(simProofs, proofId)
            => SimRegisterProofThrow(proofId, sha256Hash) = DuplicateProofId

\* What it answers: the contract checks its inputs first.
C3_ExistingIdRefused ==
    /\ \A proofId \in StoredIds, sha256Hash \in Bytes32, cid \in Cids :
          LET reason == RegisterProofRequire(proofId, sha256Hash, cid)
          IN  /\ reason # Ok
              /\ reason = DuplicateProofId <=> (sha256Hash # 0 /\ cid # "")
              /\ (sha256Hash = 0 \/ cid = "") => reason \in InvalidInput
    /\ \A proofId \in ProofIds, sha256Hash \in SimHashes :
          MapHas(simProofs, proofId)
            => SimRegisterProofThrow(proofId, sha256Hash) = DuplicateProofId

\* C3, as claimed: registerProof with a proofId that exists fails with
\* DuplicateProofId and leaves the record, both indexes and the counter
\* unchanged.
C3_Original ==
    /\ []C3_ExistingIdAsClaimed
    /\ [][last'.result = DuplicateProofId
            => UNCHANGED <<proofs, hashToProofId, cidToProofId, totalProofs,
                           simProofs>>]_vars

\* C3, amended: registerProof with a proofId that exists fails and leaves
\* the record, both indexes and the counter unchanged; the error is
\* DuplicateProofId, except that the ledger contract, which checks its
\* inputs first, answers InvalidInput to a zero hash or an empty locator.
C3_DuplicateProofId ==
    /\ []C3_ExistingIdRefused
    /\ [][/\ FailedCallStoresNothing
          /\ last'.result = DuplicateProofId
               => UNCHANGED <<proofs, hashToProofId, cidToProofId,
                              totalProofs, simProofs>>]_vars

\* A registration under a stored proofId was refused as a duplicate id.
C3_Witness ==
    /\ last = [op |-> "registerProof", result |-> DuplicateProofId]
    /\ StoredIds # {} \/ SimStored # {}

\* C4, as claimed: registerProof never stores a proof whose proofId is
\* empty, whose hash is zero or empty, or whose locator is empty (it fails
\* with InvalidInput).
C4_InvalidInput ==
    /\ \A id \in StoredIds :
          proofs[id].proofId # "" /\ proofs[id].sha256Hash # 0
            /\ proofs[id].cid # ""
    /\ \A p \in SimStored :
          p.proofId # "" /\ p.sha256Hash # <<>> /\ p.cid # ""

\* C5: the total-proof counter starts at 0, is the number of stored proofs
\* in every state, grows by 1 with a successful registerProof and is left
\* alone by every other call.
C5_TotalProofs ==
    /\ totalProofs = 0
    /\ [](totalProofs = Cardinality(StoredIds))
    /\ [][totalProofs' =
            IF last'.op = "registerProof" /\ last'.result = Ok
            THEN totalProofs + 1
            ELSE totalProofs]_vars

\* Two proofs are counted, and a call after them left the counter alone.
C5_Witness ==
    /\ totalProofs = 2
    /\ totalDealsTracked > 0
    /\ last.op = "registerProof" /\ last.result # Ok

\* C6, as claimed: getProofByHash and getProofByCid (getProofByHash in the
\* simulated variant) of a stored proof's hash and locator return the
\* record registered under its proofId.
C6_LookupRoundTrip ==
    /\ \A id \in StoredIds :
          /\ GetProofByHash(proofs[id].sha256Hash) = proofs[id]
          /\ GetProofByCid(proofs[id].cid) = proofs[id]
          /\ proofs[id].proofId = id
    /\ \A p \in SimStored :
          SimGetProofByHash(p.sha256Hash) = p /\ SimGetProof(p.proofId) = p

\* C7: verifyProof(id, h) is TRUE exactly when a proof is registered under
\* id and h is its stored hash, which is when the hash index leads from h
\* to id; it is FALSE, not an error, in every other case.
C7_VerifyProof ==
    \A proofId \in ProofIds, sha256Hash \in Bytes32 :
        /\ VerifyProof(proofId, sha256Hash) \in BOOLEAN
        /\ VerifyProof(proofId, sha256Hash)
             <=> (ProofExists(proofId)
                  /\ GetProof(proofId).sha256Hash = sha256Hash)
        /\ VerifyProof(proofId, sha256Hash)
             <=> (proofId # "" /\ hashToProofId[sha256Hash] = proofId)

\* One proof is registered: its own hash verifies, another hash and
\* another id do not.
C7_Witness ==
    /\ StoredIds = {"PV-1"}
    /\ VerifyProof("PV-1", proofs["PV-1"].sha256Hash)
    /\ \E h \in Bytes32 : ~VerifyProof("PV-1", h)
    /\ ~VerifyProof("PV-2", proofs["PV-1"].sha256Hash)

\* The sender may change the deals of the proof.
Authorized(sender, proofId) ==
    proofs[proofId].registrant = sender \/ sender = Owner

\* C8: linkDeal fails with NotFound when the proof does not exist and with
\* Unauthorized when it exists and the sender is neither its registrant
\* nor the owner, and succeeds otherwise; a failed call leaves the deal
\* lists, the dealIds and the total-deals counter unchanged.
C8_LinkDealRefused ==
    /\ [](\A sender \in Addresses, proofId \in ProofIds :
            LET reason == LinkDealRequire(sender, proofId)
            IN  /\ proofId \notin StoredIds => reason = NotFound
                /\ (proofId \in StoredIds /\ ~Authorized(sender, proofId))
                     => reason = Unauthorized
                /\ (proofId \in StoredIds /\ Authorized(sender, proofId))
                     => reason = Ok)
    /\ [][(last'.op = "linkDeal" /\ last'.result # Ok)
            => UNCHANGED <<proofDeals, proofs, totalDealsTracked>>]_vars

\* The other account's linkDeal on the owner's proof, which holds a deal,
\* was refused.
C8_Witness ==
    /\ last = [op |-> "linkDeal", result |-> Unauthorized]
    /\ \E id \in StoredIds :
          proofs[id].registrant = Owner /\ Len(proofDeals[id]) > 0

\* The deals of all proofs.
RECURSIVE SumOfLengths(_)
SumOfLengths(ids) ==
    IF ids = {} THEN 0
    ELSE LET id == CHOOSE x \in ids : TRUE
         IN  Len(proofDeals[id]) + SumOfLengths(ids \ {id})

\* One step keeps every entry of every deal list in its place, but for its
\* active flag.
EntriesKept ==
    \A id \in ProofIds :
        /\ Len(proofDeals'[id]) >= Len(proofDeals[id])
        /\ \A i \in 1..Len(proofDeals[id]) :
              /\ proofDeals'[id][i].dealId = proofDeals[id][i].dealId
              /\ proofDeals'[id][i].provider = proofDeals[id][i].provider
              /\ proofDeals'[id][i].startEpoch = proofDeals[id][i].startEpoch
              /\ proofDeals'[id][i].endEpoch = proofDeals[id][i].endEpoch

\* One step appends one active entry to one deal list.
OneDealAppended ==
    \E id \in StoredIds :
        /\ Len(proofDeals'[id]) = Len(proofDeals[id]) + 1
        /\ SubSeq(proofDeals'[id], 1, Len(proofDeals[id])) = proofDeals[id]
        /\ proofDeals'[id][Len(proofDeals'[id])].active = TRUE
        /\ \A other \in ProofIds \ {id} :
              proofDeals'[other] = proofDeals[other]

\* C9: a successful linkDeal appends one active entry at the end of one
\* list and adds 1 to the total-deals counter; no step shortens a list or
\* changes the place, dealId, provider or epochs of an entry; the counter
\* is the sum of the lengths of the lists.
C9_AppendOnly ==
    /\ [](totalDealsTracked = SumOfLengths(ProofIds))
    /\ [][/\ EntriesKept
          /\ (last'.op = "linkDeal" /\ last'.result = Ok)
               => OneDealAppended /\ totalDealsTracked' = totalDealsTracked + 1
          /\ ~(last'.op = "linkDeal" /\ last'.result = Ok)
               => /\ totalDealsTracked' = totalDealsTracked
                  /\ \A id \in ProofIds :
                        Len(proofDeals'[id]) = Len(proofDeals[id])]_vars

\* A list of two deals, the first switched off, after a second linkDeal.
C9_Witness ==
    /\ last = [op |-> "linkDeal", result |-> Ok]
    /\ \E id \in StoredIds :
          /\ Len(proofDeals[id]) = 2
          /\ ~proofDeals[id][1].active
          /\ proofDeals[id][1].dealId # proofDeals[id][2].dealId

\* C10: updateDealStatus fails with NotFound for an unknown proof, with
\* IndexOutOfRange for a known proof and an index not below the length of
\* its deal list, with Unauthorized for an index in range and a sender who
\* is neither registrant nor owner, and succeeds otherwise; a failed call
\* leaves every deal entry unchanged.
C10_UpdateDealStatusRefused ==
    /\ [](\A sender \in Addresses, proofId \in ProofIds,
             dealIndex \in DealIndexes :
            LET reason == UpdateDealStatusRequire(sender, proofId, dealIndex)
                known == proofId \in StoredIds
                inRange == dealIndex < Len(proofDeals[proofId])
            IN  /\ ~known => reason = NotFound
                /\ (known /\ ~inRange) => reason = IndexOutOfRange
                /\ (known /\ inRange /\ ~Authorized(sender, proofId))
                     => reason = Unauthorized
                /\ (known /\ inRange /\ Authorized(sender, proofId))
                     => reason = Ok)
    /\ [][(last'.op = "updateDealStatus" /\ last'.result # Ok)
            => UNCHANGED proofDeals]_vars

\* An updateDealStatus was refused for its index, on a proof with a deal.
C10_Witness ==
    /\ last = [op |-> "updateDealStatus", result |-> IndexOutOfRange]
    /\ \E id \in StoredIds : Len(proofDeals[id]) > 0

\* The entries of a proof's deal list whose flag is true.
ActiveEntries(proofId) ==
    {i \in 1..Len(proofDeals[proofId]) : proofDeals[proofId][i].active}

\* What a successful updateDealStatus(proofId, dealIndex, active) leaves
\* behind.
UpdateDealStatusEffect(proofId, dealIndex, active) ==
    /\ proofDeals'[proofId][dealIndex + 1].active = active
    /\ Len(proofDeals'[proofId]) = Len(proofDeals[proofId])
    /\ \A i \in 1..Len(proofDeals[proofId]) :
          /\ proofDeals'[proofId][i].dealId = proofDeals[proofId][i].dealId
          /\ proofDeals'[proofId][i].provider = proofDeals[proofId][i].provider
          /\ proofDeals'[proofId][i].startEpoch
                = proofDeals[proofId][i].startEpoch
          /\ proofDeals'[proofId][i].endEpoch = proofDeals[proofId][i].endEpoch
          /\ i # dealIndex + 1 => proofDeals'[proofId][i] = proofDeals[proofId][i]
    /\ \A other \in ProofIds \ {proofId} :
          proofDeals'[other] = proofDeals[other]
    /\ UNCHANGED <<proofs, hashToProofId, cidToProofId, totalProofs,
                   totalDealsTracked>>

\* C11: a successful updateDealStatus(proofId, i, active) sets the active
\* flag of entry i to the value given and changes no other entry, no
\* length, no other proof's deals, no proof record, neither index and
\* neither counter; getActiveDealsCount is the number of entries whose
\* flag is true.
C11_UpdateDealStatusFrame ==
    /\ [](\A proofId \in ProofIds :
            GetActiveDealsCount(proofId) = Cardinality(ActiveEntries(proofId)))
    /\ [][(last'.op = "updateDealStatus" /\ last'.result = Ok)
            => \A sender \in Addresses, proofId \in ProofIds,
                  dealIndex \in DealIndexes, active \in BOOLEAN :
                 UpdateDealStatus(sender, proofId, dealIndex, active)
                   => UpdateDealStatusEffect(proofId, dealIndex, active)]_vars

\* The second of two deals was switched off and the first left active.
C11_Witness ==
    /\ last = [op |-> "updateDealStatus", result |-> Ok]
    /\ \E id \in StoredIds :
          /\ Len(proofDeals[id]) = 2
          /\ proofDeals[id][1].active /\ ~proofDeals[id][2].active
          /\ GetActiveDealsCount(id) = 1

\* The fields of a ledger proof that identify it.
Identity(proof) ==
    [proofId |-> proof.proofId, sha256Hash |-> proof.sha256Hash,
     cid |-> proof.cid, registrant |-> proof.registrant,
     timestamp |-> proof.timestamp, blockNumber |-> proof.blockNumber]

\* C12: a registered proof stays registered and keeps its proofId, hash,
\* locator, registrant, timestamp and block number in every later step
\* (registerProof, linkDeal, updateDealStatus, mintProof, successful or
\* failed), in the ledger contract and in the simulated variant.
C12_ProofImmutable ==
    [][/\ \A id \in StoredIds :
             /\ proofs'[id].timestamp > 0
             /\ Identity(proofs'[id]) = Identity(proofs[id])
       /\ \A i \in 1..Len(simProofs) :
             /\ MapHas(simProofs', simProofs[i].key)
             /\ MapGet(simProofs', simProofs[i].key) = simProofs[i].value]_vars

\* A proof outlived a linkDeal on it (ledger); a proof outlived a mintProof
\* and a refused registerProof under its proofId (simulated).
C12_Witness ==
    \/ /\ variant = "ledger"
       /\ last = [op |-> "registerProof", result |-> DuplicateProofId]
       /\ \E id \in StoredIds : Len(proofs[id].dealIds) > 0
    \/ /\ variant = "simulated"
       /\ last = [op |-> "registerProof", result |-> DuplicateProofId]
       /\ Len(simProofs) > 0 /\ Len(simNfts) > 0

\* The error kind of an outcome.
Kind(result) == IF result \in InvalidInput THEN "InvalidInput" ELSE result

\* C13, as claimed: the contract and the simulated variant, given the same
\* registerProof calls, accept the same calls and reject the others with the
\* same error kind.
C13_VariantsEquivalent ==
    last.op = "registerProof" => Kind(last.result[1]) = Kind(last.result[2])

\* The step is a registerProof or mintProof of the simulated variant that
\* resolved (what it returned names its block, so last changes).
SimTransacted ==
    /\ last' # last
    /\ last'.op \in {"registerProof", "mintProof"}
    /\ last'.result = Ok

\* No two transactions, and no two proofs, are in the same block.
OneTransactionPerBlock ==
    /\ \A i, j \in 1..Len(simTransactions) :
          i # j => simTransactions[i].blockNumber
                      # simTransactions[j].blockNumber
    /\ \A i, j \in 1..Len(simProofs) :
          i # j => simProofs[i].value.blockNumber
                      # simProofs[j].value.blockNumber
    /\ \A i \in 1..Len(simTransactions) :
          simTransactions[i].blockNumber < simBlockNumber

\* C14: in the simulated variant the block counter never decreases, grows
\* by 1 with every registerProof or mintProof that resolves and is left
\* alone by every other step; the block number a call returns is that of
\* the transaction and proof records it stored; no two transactions share a
\* block number, whatever the overlap of the calls.
C14_BlockCounter ==
    /\ []OneTransactionPerBlock
    /\ [][/\ simBlockNumber' >= simBlockNumber
          /\ simBlockNumber' =
                IF SimTransacted THEN simBlockNumber + 1 ELSE simBlockNumber
          /\ SimTransacted =>
                LET tx == simTransactions'[Len(simTransactions')]
                IN  /\ Len(simTransactions') = Len(simTransactions) + 1
                    /\ last'.returned.blockNumber = tx.blockNumber
                    /\ last'.returned.blockNumber = simBlockNumber
                    /\ last'.returned.hash = tx.hash
                    /\ last'.op = "registerProof" =>
                          /\ last'.returned.proof.blockNumber
                                = last'.returned.blockNumber
                          /\ MapGet(simProofs', tx.proofId)
                                = last'.returned.proof]_vars

\* Two calls were in flight together; the second resolved after the first
\* and a third waits.
C14_Witness ==
    /\ Len(simTransactions) = 2
    /\ simTransactions[1].type = "registerProof"
    /\ simTransactions[2].type = "registerProof"
    /\ last.op = "registerProof" /\ last.result = Ok
    /\ last.returned.blockNumber = 2
    /\ simPending # {}

\* What a new instance holds after load() of the saved item.
Loaded ==
    [blockNumber |-> OrElse(simStorage[1].blockNumber, 1),
     proofs |-> NewMap(simStorage[1].proofs),
     nfts |-> NewMap(simStorage[1].nfts),
     nftCounter |-> OrElse(simStorage[1].nftCounter, 1),
     transactions |-> simStorage[1].transactions]

\* C15, as claimed: once an item is saved, a new instance that loads it
\* holds the proofs, NFTs, block number, token counter and transaction
\* list of the instance that saved it.
C15_PersistRoundTrip ==
    simStorage # NoItem =>
        /\ Loaded.proofs = simProofs
        /\ Loaded.nfts = simNfts
        /\ Loaded.blockNumber = simBlockNumber
        /\ Loaded.nftCounter = simNftCounter
        /\ Loaded.transactions = simTransactions
\* The list the last getGatewaysWithHealth gave (to its caller, or inside
\* getOptimizedUrl).
Ranked ==
    IF last.op = "getGatewaysWithHealth" THEN last.result
    ELSE IF last.op = "getOptimizedUrl" THEN last.gateways
    ELSE <<>>

\* C16: in the list getGatewaysWithHealth returns no unhealthy gateway comes
\* before a healthy one, the unhealthy gateways stand in the order of their
\* configured priority, and every configured gateway is in the list exactly
\* once.
C16_RankingOrder ==
    Ranked # <<>> =>
        /\ \A i, j \in 1..Len(Ranked) :
              i < j => ~(~Ranked[i].health.healthy
                            /\ Ranked[j].health.healthy)
        /\ \A i, j \in 1..Len(Ranked) :
              (i < j /\ ~Ranked[i].health.healthy
                     /\ ~Ranked[j].health.healthy)
                  => Ranked[i].priority < Ranked[j].priority
        /\ Len(Ranked) = Len(GATEWAYS)
        /\ \A g \in 1..Len(GATEWAYS) :
              Cardinality({k \in 1..Len(Ranked) :
                              Ranked[k].id = GATEWAYS[g].id}) = 1

\* A ranking that had to move gateways: the first and the third configured
\* gateway are unhealthy, the last one is healthy.
C16_Witness ==
    /\ last.op = "getGatewaysWithHealth"
    /\ Ranked[1].id = "nftstorage"
    /\ \E i, j \in 1..Len(Ranked) :
          /\ i < j
          /\ Ranked[i].id = "w3s" /\ ~Ranked[i].health.healthy
          /\ Ranked[j].id = "ipfs-io" /\ ~Ranked[j].health.healthy

\* C17: of two healthy gateways in the list getGatewaysWithHealth returns,
\* the one with the lower measured latency comes first, for every latency
\* from 0 ms on.
C17_LatencyOrder ==
    Ranked # <<>> =>
        \A i, j \in 1..Len(Ranked) :
            (/\ Ranked[i].health.healthy
             /\ Ranked[j].health.healthy
             /\ Ranked[i].health.latency < Ranked[j].health.latency)
                => i < j

\* The age in ms of the status cached for a gateway (only where one is).
Age(id) == now - healthCache[id][1].timestamp

\* C18: a checkGatewayHealth call made less than 60 s after a status was
\* cached for its gateway returns that status and sends no request; a call
\* made when the cached status is 60 s old or older sends a request, and the
\* status this request leads to replaces the cached one.
C18_FreshnessWindow ==
    [][/\ (last'.op = "checkGatewayHealth" /\ ~last'.probed /\ now' = now)
            => /\ healthCache[last'.gateway] # <<>>
               /\ Age(last'.gateway) < 60000
               /\ last'.result = healthCache[last'.gateway][1].status
               /\ UNCHANGED <<healthCache, probing>>
       /\ (last'.op = "fetch" /\ probing' # probing)
            => /\ healthCache[last'.gateway] # <<>>
                    => Age(last'.gateway) >= 60000
               /\ probing'[last'.gateway] = probing[last'.gateway] + 1
               /\ UNCHANGED healthCache
       /\ (last'.op = "checkGatewayHealth" /\ probing' # probing)
            => /\ last'.probed
               /\ healthCache'[last'.gateway] =
                      <<[status |-> last'.result, timestamp |-> now]>>
               /\ \A id \in GatewayIds \ {last'.gateway} :
                      healthCache'[id] = healthCache[id]]_vars

\* A call made exactly 60 s after the status of its gateway was cached has
\* sent its request.
C18_Witness ==
    /\ last.op = "fetch"
    /\ healthCache[last.gateway] # <<>>
    /\ Age(last.gateway) = 60000
    /\ probing[last.gateway] = 1

\* C19: checkGatewayHealth returns a status for every outcome of its request
\* and that status is in the cache: a timeout gives healthy = false,
\* latency = null and error = "Timeout"; another failure gives healthy =
\* false and the reason of the failure; a response gives its ok flag and its
\* latency; and healthy = true goes with a latency and with error = null,
\* in every status returned or cached.
C19_EveryOutcomeGivesStatus ==
    /\ (last.op = "checkGatewayHealth" /\ last.probed) =>
          /\ DOMAIN last.result = {"healthy", "latency", "error"}
          /\ healthCache[last.gateway] # <<>>
          /\ healthCache[last.gateway][1].status = last.result
          /\ last.outcome.kind = "AbortError"
                => last.result = [healthy |-> FALSE, latency |-> NullLatency,
                                  error |-> "Timeout"]
          /\ last.outcome.kind \notin {"response", "AbortError"}
                => /\ ~last.result.healthy
                   /\ last.result.error = last.outcome.message
          /\ last.outcome.kind = "response"
                => /\ last.result.healthy = last.outcome.ok
                   /\ last.result.latency = last.outcome.latency
    /\ last.op = "checkGatewayHealth" =>
          (last.result.healthy
              => /\ last.result.latency # NullLatency
                 /\ last.result.error = NullError)
    /\ \A id \in GatewayIds :
          (healthCache[id] # <<>> /\ healthCache[id][1].status.healthy)
              => /\ healthCache[id][1].status.latency # NullLatency
                 /\ healthCache[id][1].status.error = NullError

\* A request has timed out and its call has returned.
C19_Witness ==
    /\ last.op = "checkGatewayHealth"
    /\ last.probed
    /\ last.outcome.kind = "AbortError"
    /\ healthCache[last.gateway][1].status.error = "Timeout"

\* The configured gateway of the highest priority (the lowest number).
TopPriority ==
    GATEWAYS[CHOOSE g \in 1..Len(GATEWAYS) :
                 \A h \in 1..Len(GATEWAYS) :
                     GATEWAYS[g].priority <= GATEWAYS[h].priority]

\* C20: getOptimizedUrl(cid) returns the URL of a gateway followed by the
\* cid; the gateway is the healthy one ranked highest when some gateway is
\* healthy, and the configured gateway of the highest priority when none is,
\* so a URL is returned in either case.
C20_BestGateway ==
    last.op = "getOptimizedUrl" =>
        /\ Len(last.result) = 2
        /\ last.result[2] = last.cid
        /\ IF \E i \in 1..Len(Ranked) : Ranked[i].health.healthy
           THEN \E i \in 1..Len(Ranked) :
                    /\ Ranked[i].health.healthy
                    /\ \A j \in 1..(i - 1) : ~Ranked[j].health.healthy
                    /\ last.result[1] = Ranked[i].url
           ELSE last.result[1] = TopPriority.url

\* A URL was built while no gateway was healthy.
C20_Witness ==
    /\ last.op = "getOptimizedUrl"
    /\ \A i \in 1..Len(Ranked) : ~Ranked[i].health.healthy
    /\ last.result = <<"https://w3s.link/ipfs/", "bafy1">>

\* The ids of a list of gateways.
Ids(gateways) == [i \in 1..Len(gateways) |-> gateways[i].id]

\* The healthy gateways of a ranking, in the order of the ranking.
RankedHealthy(gateways) ==
    LET at == {i \in 1..Len(gateways) : gateways[i].health.healthy}
    IN  [n \in 1..Cardinality(at) |->
            gateways[CHOOSE i \in at :
                         Cardinality({j \in at : j < i}) = n - 1]]

\* The three configured gateways of the highest priority, highest first.
ThreeTopPriority ==
    [n \in 1..3 |->
        CHOOSE g \in GatewayIds :
            \E i \in 1..Len(GATEWAYS) :
                /\ GATEWAYS[i].id = g
                /\ Cardinality({j \in 1..Len(GATEWAYS) :
                       GATEWAYS[j].priority < GATEWAYS[i].priority}) = n - 1]

\* C21: fetchWithFailover goes through the healthy gateways in the order of
\* the ranking or, when none is healthy, through the three gateways of the
\* highest priority in priority order; it sends its requests one gateway
\* after the other in that order, returns the response of the first gateway
\* that answers ok, and sends no request after that one.
C21_TryOrder ==
    /\ [](failover # NoCall =>
            /\ Ids(failover.toTry) =
                  IF \E i \in 1..Len(failover.gateways) :
                        failover.gateways[i].health.healthy
                  THEN Ids(RankedHealthy(failover.gateways))
                  ELSE ThreeTopPriority
            /\ requests = {failover.toTry[failover.k].id})
    /\ [][/\ (last'.op = "request" /\ failover' # failover)
               => /\ failover'.k = IF failover = NoCall THEN 1
                                   ELSE failover.k + 1
                  /\ last'.gateway = failover'.toTry[failover'.k].id
                  /\ failover # NoCall
                        => /\ failover'.toTry = failover.toTry
                           /\ last'.settled # <<>>
                           /\ ~(last'.settled[1].kind = "response"
                                    /\ last'.settled[1].ok)
          /\ (failover # NoCall /\ failover' = NoCall
                 /\ last'.result = "returned")
               => /\ last'.outcome = [kind |-> "response", ok |-> TRUE]
                  /\ last'.attempts = failover.k
                  /\ last'.returned.response.url =
                        <<failover.toTry[failover.k].url, failover.cid>>
                  /\ requests' = {}
          /\ (failover # NoCall /\ failover' = NoCall
                 /\ last'.result = "thrown")
               => /\ ~(last'.outcome.kind = "response" /\ last'.outcome.ok)
                  /\ failover.k = Len(failover.toTry)
                  /\ requests' = {}]_vars

\* The gateway ranked second, the first configured one, has answered ok
\* after the gateway ranked first had failed.
C21_Witness ==
    /\ last.op = "fetchWithFailover"
    /\ last.result = "returned"
    /\ last.attempts = 2
    /\ last.returned.gateway = "Web3.Storage"
    /\ failover = NoCall

\* C22: within a fetchWithFailover call at most one retrieval request is in
\* flight at any moment, and a request to the next gateway is sent only in
\* the step in which the request before it has completed with a rejection,
\* a timeout or a response that is not ok.
C22_OneRequestInFlight ==
    /\ [](Cardinality(requests) <= 1)
    /\ [](failover = NoCall => requests = {})
    /\ [][requests' \ requests # {}
            => /\ Cardinality(requests') = 1
               /\ requests \cap requests' = {}
               /\ requests # {}
                    => /\ last'.settled # <<>>
                       /\ last'.settled[1] \in
                             FetchOutcomes \ {[kind |-> "response",
                                               ok |-> TRUE]}]_vars

\* The request to the second gateway is in flight after the request to the
\* first one has timed out.
C22_Witness ==
    /\ failover # NoCall
    /\ failover.k = 2
    /\ last.op = "request"
    /\ last.settled # <<>>
    /\ last.settled[1].kind = "AbortError"
    /\ requests = {failover.toTry[2].id}

\* C23: fetchWithFailover throws only when every gateway of its list has
\* been tried and none answered ok; what it throws then is an error saying
\* that all gateways failed, and when the last gateway tried has rejected
\* (timeout or other error) that error carries this rejection.
C23_AllFailedError ==
    /\ []((last.op = "fetchWithFailover" /\ last.result = "thrown") =>
            /\ last.thrown.message = "All gateways failed"
            /\ last.outcome.kind # "response"
                  => /\ "cause" \in DOMAIN last.thrown
                     /\ last.thrown.cause = <<ErrorOf(last.outcome)>>)
    /\ [][(failover # NoCall /\ failover' = NoCall
              /\ last'.result = "thrown")
            => /\ failover.k = Len(failover.toTry)
               /\ ~(last'.outcome.kind = "response" /\ last'.outcome.ok)]_vars

\* What a returned call reports about the attempts that failed before the
\* one that succeeded: a trace in its result if it has one, else the lines
\* it wrote with console.warn.
ReportedFailures ==
    IF "trace" \in DOMAIN last.returned THEN last.returned.trace
    ELSE last.warned

\* C24: when the k-th gateway tried is the first to answer ok,
\* fetchWithFailover returns its response and reports exactly k - 1 failed
\* attempts.
C24_FailedAttemptsReported ==
    (last.op = "fetchWithFailover" /\ last.result = "returned") =>
        Len(ReportedFailures) = last.attempts - 1

\* The age in ms of the cache entry of a locator (only where there is one).
DealAge(cid) == now - dealCache[cid][1].timestamp

\* A getDealInfo call for a non-empty locator is answered from the cache
\* exactly when the entry of the locator is less than 5 minutes old, and
\* then with the data of the entry; otherwise it sends a query.
CacheAnswersWithinTtl ==
    [][/\ (last'.op = "getDealInfo" /\ ~last'.queried /\ now' = now
              /\ last'.cid # <<>>)
            => /\ dealCache[last'.cid] # <<>>
               /\ DealAge(last'.cid) < 300000
               /\ last'.result = dealCache[last'.cid][1].data
               /\ UNCHANGED dealVars
       /\ (last'.op = "query" /\ dealCalls' # dealCalls)
            => (dealCache[last'.cid] # <<>>
                    => DealAge(last'.cid) >= 300000)]_vars

\* C25: two getDealInfo calls for the same non-empty locator made within 5
\* minutes of each other, one after the other or overlapping, send at most
\* one query between them and return the same result; a call made when the
\* cached entry is 5 minutes old or older sends a new query.
C25_DealCacheOneQuery ==
    /\ [](\A i, j \in 1..Len(dealCalls) :
            (i < j /\ dealCalls[i].cid = dealCalls[j].cid)
                => dealCalls[j].started - dealCalls[i].started >= 300000)
    /\ CacheAnswersWithinTtl

\* The query of the last call failed otherwise than by a 404 answer: it was
\* rejected, answered with another status that is not ok, or its body did
\* not parse.
QueryFailed ==
    \/ last.outcome.kind # "response"
    \/ /\ last.outcome.kind = "response"
       /\ IF ResponseOk(last.outcome) THEN last.outcome.body = <<>>
          ELSE last.outcome.status # 404

\* C26: a getDealInfo call that had to query returns status not_found with
\* no deals, and no simulated summary, when the answer is a 404; it returns
\* the simulated summary on every other failure of the query; and it always
\* returns a summary, never an error.
C26_NotFoundOrSimulated ==
    (last.op = "getDealInfo" /\ last.queried) =>
        /\ "status" \in DOMAIN last.result
        /\ "error" \notin DOMAIN last.result
        /\ (last.outcome.kind = "response" /\ last.outcome.status = 404)
              => /\ last.result.status = "not_found"
                 /\ last.result.deals = <<>>
                 /\ "simulated" \notin DOMAIN last.result
        /\ QueryFailed
              => /\ "simulated" \in DOMAIN last.result
                 /\ last.result.simulated
                 /\ last.result.status # "not_found"

\* A query was answered with 404 and the call returned not_found.
C26_Witness ==
    /\ last.op = "getDealInfo"
    /\ last.queried
    /\ last.outcome.kind = "response"
    /\ last.outcome.status = 404
    /\ last.result.status = "not_found"

\* Two summaries hold the same deals: as many, with the same providers, deal
\* ids, activation and expiration instants.
SameDeals(a, b) ==
    /\ Len(a.deals) = Len(b.deals)
    /\ \A i \in 1..Len(a.deals) :
          /\ a.deals[i].provider = b.deals[i].provider
          /\ a.deals[i].dealId = b.deals[i].dealId
          /\ a.deals[i].activation = b.deals[i].activation
          /\ a.deals[i].expiration = b.deals[i].expiration

\* C27: a simulated summary depends on the locator alone: when a call
\* computes one for a locator whose cache entry, fresh or expired, holds an
\* earlier simulated summary, the two hold the same deals.
C27_SimulationOfLocatorAlone ==
    [][(/\ last'.op = "getDealInfo"
        /\ last'.queried
        /\ dealCalls' # dealCalls
        /\ "simulated" \in DOMAIN last'.result
        /\ dealCache[last'.cid] # <<>>
        /\ "simulated" \in DOMAIN dealCache[last'.cid][1].data)
          => SameDeals(dealCache[last'.cid][1].data, last'.result)]_vars

\* C28: right after every write of the deal cache no entry in it is older
\* than twice the TTL (10 minutes); an entry between one and two TTLs old
\* may still be stored but is never what a call returns from the cache.
C28_DealCacheEviction ==
    [][/\ Len(dealCalls') < Len(dealCalls)
            => /\ \A key \in DealKeys :
                     dealCache'[key] # <<>>
                        => now' - dealCache'[key][1].timestamp <= 600000
               /\ dealCache'[last'.cid] # <<>>
               /\ dealCache'[last'.cid][1].timestamp = now'
               /\ \A key \in DealKeys \ {last'.cid} :
                     dealCache'[key] # dealCache[key]
                        => /\ dealCache'[key] = <<>>
                           /\ DealAge(key) > 600000
       /\ (last'.op = "getDealInfo" /\ ~last'.queried /\ now' = now
              /\ last'.cid # <<>>)
            => /\ dealCache[last'.cid] # <<>>
               /\ DealAge(last'.cid) < 300000]_vars

\* A write for one locator has deleted the entry of another.
C28_Witness ==
    /\ last.op = "getDealInfo"
    /\ last.queried
    /\ last.deleted # {}
    /\ last.cid \notin last.deleted
    /\ \A key \in last.deleted : dealCache[key] = <<>>
    /\ DealAge(last.cid) = 0

\* The number of deals of a list that have a status.
CountStatus(deals, status) ==
    Cardinality({i \in 1..Len(deals) : deals[i].status = status})

\* C29: the status of a summary parsed from an answer is active when one of
\* its deals is active, else pending when one is pending, else expired when
\* it has any deal at all, whatever the status of those deals, else unknown.
C29_RolledUpStatus ==
    last.op = "parseW3SResponse" =>
        /\ Len(last.result.deals) =
              IF "deals" \in DOMAIN last.data THEN Len(last.data.deals)
              ELSE 0
        /\ last.result.status =
              CASE CountStatus(last.result.deals, "active") > 0 -> "active"
                [] /\ CountStatus(last.result.deals, "active") = 0
                   /\ CountStatus(last.result.deals, "pending") > 0
                       -> "pending"
                [] /\ CountStatus(last.result.deals, "active") = 0
                   /\ CountStatus(last.result.deals, "pending") = 0
                   /\ Len(last.result.deals) > 0 -> "expired"
                [] OTHER -> "unknown"

\* An answer whose deals are only slashed or of a status the switch does not
\* know has given a summary of status expired.
C29_Witness ==
    /\ last.op = "parseW3SResponse"
    /\ Len(last.result.deals) = 2
    /\ last.result.deals[1].status = "slashed"
    /\ last.result.deals[2].status = "unknown"
    /\ last.result.status = "expired"

\* The score and label the claim gives to a status and a number of active
\* deals.
ScoreTable(status, active) ==
    IF status = "not_found" THEN <<0, "No Data">>
    ELSE IF active >= 3 THEN <<100, "Excellent">>
    ELSE IF active = 2 THEN <<80, "Good">>
    ELSE IF active = 1 THEN <<60, "Fair">>
    ELSE IF status = "pending" THEN <<40, "Pending">>
    ELSE <<20, "At Risk">>

\* The deals of the summary the last getDealHealthScore call was given.
ScoredDeals ==
    IF last.dealInfo # <<>> /\ "deals" \in DOMAIN last.dealInfo[1]
    THEN last.dealInfo[1].deals ELSE <<>>

\* C30: getDealHealthScore gives 0 / No Data for a missing summary or one of
\* status not_found, and else 100 / Excellent, 80 / Good, 60 / Fair for 3 or
\* more, 2, 1 active deals, 40 / Pending for none with status pending and
\* 20 / At Risk in every other case; with one more active deal and the same
\* status (not not_found) the score is not lower.
C30_HealthScore ==
    last.op = "getDealHealthScore" =>
        /\ last.dealInfo = <<>>
              => <<last.result.score, last.result.label>> = <<0, "No Data">>
        /\ last.dealInfo # <<>>
              => /\ <<last.result.score, last.result.label>> =
                       ScoreTable(last.dealInfo[1].status,
                                  CountStatus(ScoredDeals, "active"))
                 /\ last.dealInfo[1].status # "not_found"
                       => GetDealHealthScore(
                              <<[status |-> last.dealInfo[1].status,
                                 deals |-> Append(ScoredDeals,
                                               [status |-> "active"])]>>
                          ).score >= last.result.score

\* A summary of status pending without an active deal was scored 40.
C30_Witness ==
    /\ last.op = "getDealHealthScore"
    /\ last.dealInfo # <<>>
    /\ last.dealInfo[1].status = "pending"
    /\ Len(ScoredDeals) = 2
    /\ CountStatus(ScoredDeals, "active") = 0
    /\ last.result = [score |-> 40, label |-> "Pending", color |-> "yellow"]

\* The deliveries a step starts.
Started == deliveries' \ deliveries

\* The step is the body of one triggerWebhook call.
IsTrigger == triggered' = triggered + 1

\* The step is the end of the dispatchWebhook call d.
Settles(d) == d \in deliveries /\ d.phase = "request" /\ logged' = logged + 1
                /\ webhookLogs'[1].webhookId = d.webhook
                /\ \A e \in deliveries \ {d} : e \in deliveries'

\* C31: triggerWebhook(event, payload) starts one delivery to every stored
\* webhook that is enabled and whose events include event, at the time of
\* the call, and none to any other webhook.
C31_TriggerSelects ==
    [][IsTrigger /\ last'.op = "triggerWebhook" =>
        /\ \A i \in DOMAIN webhooks :
              Cardinality({d \in Started : d.webhook = webhooks[i].id}) =
                  IF webhooks[i].enabled
                        /\ Includes(webhooks[i].events, last'.event)
                  THEN 1 ELSE 0
        /\ \A d \in Started :
              /\ d.trigger = triggered'
              /\ d.event = last'.event
              /\ \E i \in DOMAIN webhooks : d.webhook = webhooks[i].id]_vars

\* An event was triggered with two webhooks stored that include it, one
\* enabled and one disabled: the first has its delivery, the second none.
C31_Witness ==
    /\ last.op = "triggerWebhook"
    /\ \E i, k \in DOMAIN webhooks :
          /\ webhooks[i].enabled /\ Includes(webhooks[i].events, last.event)
          /\ ~webhooks[k].enabled /\ Includes(webhooks[k].events, last.event)
          /\ \E d \in deliveries :
                d.trigger = last.trigger /\ d.webhook = webhooks[i].id
          /\ \A d \in deliveries :
                d.trigger = last.trigger => d.webhook # webhooks[k].id

\* The event a workflow triggers when it completes.
EventOf(result) ==
    IF result.op = "createProof" THEN "proof_created"
    ELSE IF result.op = "verifyProof" THEN "proof_verified"
    ELSE result.event

\* C32: a workflow that triggers an event (triggerWebhook, createProof,
\* verifyProof) completes in the step in which it starts its deliveries,
\* with its successful result and with every one of these deliveries still
\* in flight; and a delivery that ends, with or without a failure, changes
\* no result.
C32_FireAndForget ==
    [][/\ IsTrigger =>
            /\ last'.op \in {"triggerWebhook", "createProof", "verifyProof"}
            /\ last'.result =
                    IF last'.op = "triggerWebhook" THEN Ok
                    ELSE [last'.result EXCEPT !.success = TRUE]
            /\ \A i \in DOMAIN webhooks :
                  Eligible(webhooks[i], EventOf(last')) =>
                      \E d \in deliveries' :
                          /\ d.trigger = triggered'
                          /\ d.webhook = webhooks[i].id
            /\ logged' = logged
            /\ webhookLogs' = webhookLogs
            /\ webhooks' = webhooks
       /\ logged' = logged + 1 => last' = last]_vars

\* createProof has returned its proof and the delivery it started has
\* failed since.
C32_Witness ==
    /\ last.op = "createProof"
    /\ last.result.success
    /\ \E i \in DOMAIN webhookLogs :
          /\ webhookLogs[i].event = "proof_created"
          /\ ~webhookLogs[i].success
    /\ \A d \in deliveries : d.trigger # last.trigger

\* How many entries of the log are of the webhook id with this success.
CountLogs(id, success) ==
    Cardinality({i \in DOMAIN webhookLogs :
                    /\ webhookLogs[i].webhookId = id
                    /\ webhookLogs[i].success = success})

\* C33: the end of a delivery to a stored webhook adds 1 to exactly one of
\* its successCount and failCount, changes no other webhook and puts one
\* entry at the head of the log; so, in every state, the successCount and
\* the failCount of a stored webhook are the numbers of the log entries of
\* its successful and of its failed deliveries, however the deliveries
\* overlap.
C33_CountersMatchDeliveries ==
    /\ [](\A i \in DOMAIN webhooks :
            /\ webhooks[i].successCount = CountLogs(webhooks[i].id, TRUE)
            /\ webhooks[i].failCount = CountLogs(webhooks[i].id, FALSE))
    /\ [][\A d \in deliveries : Settles(d) =>
            /\ webhookLogs' = <<webhookLogs'[1]>> \o webhookLogs
            /\ Len(webhooks') = Len(webhooks)
            /\ \A i \in DOMAIN webhooks :
                  LET before == webhooks[i]
                      after == webhooks'[i]
                      success == webhookLogs'[1].success
                  IN  IF before.id # d.webhook THEN after = before
                      ELSE after =
                            [before EXCEPT
                                !.successCount =
                                    IF success THEN @ + 1 ELSE @,
                                !.failCount =
                                    IF success THEN @ ELSE @ + 1]]_vars

\* Two deliveries to one webhook overlap: one has ended in a failure and
\* is counted while the POST of the other is still in flight.
C33_Witness ==
    \E i \in DOMAIN webhooks, d \in deliveries :
        /\ webhooks[i].successCount = 0
        /\ webhooks[i].failCount = 1
        /\ d.webhook = webhooks[i].id
        /\ d.phase = "request"

\* C34: a POST is sent for a trigger and a webhook only by the trigger
\* itself or, for a webhook with a secret, when the signature of that
\* delivery is ready, and the trigger starts one delivery per webhook; when
\* the POST has settled the delivery is over, and after a failure all that
\* is left of it is the log entry with success = false and the failCount:
\* nothing is sent again.
C34_NoRetry ==
    /\ [](\A d, e \in deliveries :
            d.trigger = e.trigger /\ d.webhook = e.webhook => d = e)
    /\ [][/\ \A d \in Started :
                \/ IsTrigger /\ d.trigger = triggered'
                \/ /\ d.phase = "request"
                   /\ [d EXCEPT !.phase = "signing"] \in deliveries
                   /\ [d EXCEPT !.phase = "signing"] \notin deliveries'
          /\ \A d \in deliveries : Settles(d) =>
                /\ \A e \in deliveries' :
                      ~(e.trigger = d.trigger /\ e.webhook = d.webhook)
                /\ webhookLogs'[1].event = d.event
                /\ ~webhookLogs'[1].success =>
                      \A i \in DOMAIN webhooks :
                          webhooks[i].id = d.webhook =>
                              /\ webhooks'[i].failCount =
                                      webhooks[i].failCount + 1
                              /\ webhooks'[i].successCount =
                                      webhooks[i].successCount]_vars

\* A delivery has failed: it is logged and counted, and nothing is in
\* flight any more.
C34_Witness ==
    /\ deliveries = {}
    /\ webhookLogs # <<>>
    /\ ~webhookLogs[1].success
    /\ \E i \in DOMAIN webhooks :
          /\ webhooks[i].id = webhookLogs[1].webhookId
          /\ webhooks[i].failCount = 1

\* C35: the log never holds more than 100 entries; an entry logged while it
\* holds fewer goes to the head with all the others kept, one logged while
\* it holds 100 goes to the head with the last one, the oldest, dropped; the
\* entries are in the order of their writing, newest first.
C35_LogRingBuffer ==
    /\ [](/\ Len(webhookLogs) <= KeepLogs
          /\ \A i, k \in DOMAIN webhookLogs :
                i < k => webhookLogs[i].timestamp > webhookLogs[k].timestamp)
    /\ [][logged' = logged + 1 =>
            /\ webhookLogs'[1].timestamp = logged'
            /\ IF Len(webhookLogs) < KeepLogs
               THEN webhookLogs' = <<webhookLogs'[1]>> \o webhookLogs
               ELSE webhookLogs' =
                        <<webhookLogs'[1]>>
                            \o SubSeq(webhookLogs, 1, KeepLogs - 1)]_vars

\* The log is full, and its oldest entry is not the first one written: an
\* older one has been dropped.
C35_Witness ==
    /\ Len(webhookLogs) = KeepLogs
    /\ webhookLogs[KeepLogs].timestamp = 3
    /\ webhookLogs[1].timestamp = KeepLogs + 2

\* C36: every stored webhook has at least one event, after any sequence of
\* createWebhook, updateWebhook and deleteWebhook calls. (Violated:
\* updateWebhook stores whatever events array it is given.)
C36_NonEmptyEvents ==
    \A i \in DOMAIN webhooks : Len(webhooks[i].events) > 0

\* The part of C36 that holds: createWebhook rejects an empty events array
\* and changes nothing then.
CreateRejectsNoEvents ==
    [][last'.op = "createWebhook" /\ Len(last'.events) = 0 =>
            /\ last'.result \in {"Webhook URL is required",
                                 "At least one event must be selected"}
            /\ webhooks' = webhooks]_vars

\* The createProof calls a step takes out of the calls in progress.
Ended == {call \in apiCalls \ apiCalls' : call.op = "createProof"}

\* The step persists a proof.
Persists == savedProofs' # savedProofs

\* A proof is persisted only after hashing and upload have succeeded, as C37
\* claims it: by a call whose upload was awaited, with the locator it gave.
C37_PersistedAsClaimed ==
    Persists =>
        \E call \in Ended :
            /\ call.phase = "uploading"
            /\ savedProofs' = Append(savedProofs,
                                     NewProof(call.bytes, CidOf(call.bytes)))

\* When a proof is persisted: by a call whose upload was awaited, or by a
\* call with skipUpload whose hashing was awaited, then without a locator.
C37_PersistedAfter ==
    Persists =>
        \E call \in Ended :
            \/ /\ call.phase = "uploading"
               /\ ~call.skipUpload
               /\ savedProofs' = Append(savedProofs,
                                    NewProof(call.bytes, CidOf(call.bytes)))
            \/ /\ call.phase = "hashing"
               /\ call.skipUpload
               /\ savedProofs' = Append(savedProofs,
                                        NewProof(call.bytes, NullCid))

\* A call reaches its upload only from its hashing; proof_created is
\* triggered by createProof only in a step that has persisted the proof it
\* returns; a createProof call that fails persists nothing, triggers
\* nothing and returns { success: false, error }.
C37_OrderAndFailure ==
    /\ \A call \in apiCalls' \ apiCalls :
          call.phase = "uploading" =>
              /\ [call EXCEPT !.phase = "hashing"] \in apiCalls \ apiCalls'
              /\ ~call.skipUpload
    /\ last'.op = "createProof" /\ IsTrigger =>
          /\ last'.result.success
          /\ last'.notified
          /\ Persists
          /\ savedProofs'[Len(savedProofs')] = last'.result.data
    /\ /\ last'.op = "createProof"
       /\ last' # last \/ IsTrigger \/ Persists
       /\ ~last'.result.success
       => /\ ~Persists
          /\ ~IsTrigger
          /\ deliveries' = deliveries
          /\ last'.result.error \in
                {"Invalid file data format", "hashing failed",
                 "upload failed", "saveProof failed"}

\* C37, as claimed: createProof persists the proof only after hashing and
\* upload have succeeded and triggers proof_created only after the proof is
\* persisted; when hashing or upload fails nothing is persisted, nothing is
\* triggered and the call returns a failure result.
C37_Original ==
    [][C37_PersistedAsClaimed /\ C37_OrderAndFailure]_vars

\* C37, amended: createProof persists the proof only after hashing has
\* succeeded and, unless the caller set skipUpload, after upload has
\* succeeded; with skipUpload no upload is made and the proof is persisted
\* without a locator. proof_created is triggered only after the proof is
\* persisted; when hashing, upload or saving fails nothing is persisted,
\* nothing is triggered and the call returns a failure result.
C37_CreateProofOrder ==
    [][C37_PersistedAfter /\ C37_OrderAndFailure]_vars

\* Two proofs are persisted, one after its upload and one without an
\* upload, and the last createProof call has returned success.
C37_Witness ==
    /\ last.op = "createProof"
    /\ last.result.success
    /\ last.notified
    /\ \E i, k \in DOMAIN savedProofs :
          savedProofs[i].cid = NullCid /\ savedProofs[k].cid # NullCid

\* The verifyProof calls a step completes after their hashing.
Verified == {call \in apiCalls \ apiCalls' : call.op = "verifyProof"}

\* The proof was created from the content bytes.
CreatedFrom(proof, bytes) == proof.sha256Hash = HashBuffer(bytes)

\* Verifying the content a proof was created from reports verified = true,
\* as C38 claims it: whenever a call with that content returns.
C38_SameContentAsClaimed ==
    \A call \in Verified :
        CreatedFrom(call.proof, call.bytes) => last'.result.verified

\* The same, for the calls that have read and hashed their content.
C38_SameContent ==
    \A call \in Verified :
        CreatedFrom(call.proof, call.bytes) =>
            IF last'.result.success
            THEN last'.result.verified /\ IsTrigger
            ELSE /\ last'.result = Failure("hashing failed")
                 /\ ~IsTrigger

\* Verifying any other content reports verified = false; so does verifying
\* against a proofId that is not stored, which triggers nothing.
C38_OtherContentOrUnknownId ==
    /\ \A call \in Verified :
          /\ last'.op = "verifyProof"
          /\ call.proof \in {savedProofs[i] : i \in DOMAIN savedProofs}
          /\ \E bytes \in Bytes : CreatedFrom(call.proof, bytes)
          /\ ~CreatedFrom(call.proof, call.bytes) => ~last'.result.verified
    /\ /\ last'.op = "verifyProof"
       /\ last' # last
       /\ \A i \in DOMAIN savedProofs :
             savedProofs[i].proofId # last'.proofId
       => /\ last'.result = Failure("Proof not found")
          /\ ~IsTrigger
          /\ deliveries' = deliveries
          /\ apiCalls' = apiCalls

SimIds(stored) == {stored[i].key : i \in DOMAIN stored}
SimLowerHashes(stored) ==
    {ToLowerCase(stored[i].value.sha256Hash) : i \in DOMAIN stored}

\* C39: in the simulated variant no two stored proofs have the same proofId
\* or the same hash, compared case-insensitively; a registerProof call that
\* succeeds stores a proof whose proofId and hash no stored proof had in the
\* state its delay ended in, whatever calls were waiting with it: of the
\* calls that carry one proofId or one hash at most one succeeds.
C39_AtomicCheckAndInsert ==
    /\ [](\A i, k \in DOMAIN simProofs :
            i # k =>
                /\ simProofs[i].key # simProofs[k].key
                /\ ToLowerCase(simProofs[i].value.sha256Hash)
                     # ToLowerCase(simProofs[k].value.sha256Hash))
    /\ [][\A call \in simPending \ simPending' :
            IF last'.result = Ok
            THEN /\ call.proofId \notin SimIds(simProofs)
                 /\ ToLowerCase(call.sha256Hash)
                        \notin SimLowerHashes(simProofs)
                 /\ Len(simProofs') = Len(simProofs) + 1
                 /\ simProofs'[Len(simProofs')].key = call.proofId
                 /\ simProofs'[Len(simProofs')].value.sha256Hash
                        = call.sha256Hash
            ELSE /\ simProofs' = simProofs
                 /\ \/ call.proofId \in SimIds(simProofs)
                    \/ ToLowerCase(call.sha256Hash)
                            \in SimLowerHashes(simProofs)]_vars

\* Of two overlapping calls with one hash in two letter cases the first to
\* leave its delay has stored its proof and the second has been refused,
\* while a third call is still waiting.
C39_Witness ==
    /\ last = [op |-> "registerProof", result |-> "Hash already registered"]
    /\ Len(simProofs) = 1
    /\ simProofs[1].value.sha256Hash = <<"A", "B">>
    /\ \E call \in simPending :
          call.sha256Hash = <<"a", "b">> /\ call.proofId # simProofs[1].key

\* C40: in the ledger contract hashToProofId[h] = id exactly when the proof
\* registered under id has sha256Hash h; a cidToProofId[c] that is set names
\* a registered proof whose locator is c; and the dealIds of every proof are
\* the deal ids of its proofDeals, in the same order.
C40_IndexConsistency ==
    /\ \A h \in Bytes32, id \in ProofIds \ {""} :
          hashToProofId[h] = id <=>
              (id \in StoredIds /\ proofs[id].sha256Hash = h)
    /\ \A h \in Bytes32 : hashToProofId[h] \in StoredIds \cup {""}
    /\ \A c \in Cids :
          cidToProofId[c] # "" =>
              /\ cidToProofId[c] \in StoredIds
              /\ proofs[cidToProofId[c]].cid = c
    /\ \A id \in ProofIds :
          /\ Len(proofs[id].dealIds) = Len(proofDeals[id])
          /\ \A k \in DOMAIN proofDeals[id] :
                proofs[id].dealIds[k] = proofDeals[id][k].dealId

\* Two proofs are registered and one of them has two deals, linked in the
\* order 9, 7.
C40_Witness ==
    /\ Cardinality(StoredIds) = 2
    /\ \E id \in StoredIds :
          /\ proofs[id].dealIds = <<9, 7>>
          /\ Len(proofDeals[id]) = 2
          /\ hashToProofId[proofs[id].sha256Hash] = id

====
